---- MODULE Spec2Model ----
(***************************************************************************)
(* State-machine model of the document intelligence pipeline:              *)
(*   - chunk_text                      (src/src/utils.py)                  *)
(*   - SectionMatcher and match_and_rank_sections (src/src/matcher.py)     *)
(*   - PDFParser heading classifier and segmentation (src/src/parser.py)   *)
(* Strings are sequences of one-character strings; Python's 0-based        *)
(* half-open slices are kept (Slice, RFind) so that offsets read as in the *)
(* source.                                                                 *)
(***************************************************************************)
EXTENDS Integers, Sequences, FiniteSets, TLC

VARIABLES
    \* chunk_text (utils.py)
    text, max_chunk_size, overlap, start, chunks, windows, cpc,
    \* SectionMatcher._create_refined_text (matcher.py)
    content, max_length, refined_text, rpc,
    \* match_and_rank_sections (matcher.py)
    query_embedding, embedded_sections, top_k, ranked_sections, merged_sections,
    section_summaries, subsection_analysis, mpc,
    \* PDFParser.extract_sections (parser.py)
    raw_pages, min_confidence, pages_content, page_idx, headings,
    current_section, sections, ppc,
    \* DocumentIntelligencePipeline._extract_all_sections (main.py)
    pdf_files, doc_idx, all_sections, documents_processed, sections_extracted,
    attempts, epc,
    \* DocumentIntelligencePipeline._load_and_validate_input (main.py)
    input_file, input_data, loaded, lpc,
    \* format_section_title (utils.py)
    raw_title, formatted_title, tpc,
    \* DocumentIntelligencePipeline.run (main.py)
    run_file, run_json, faults, run_step, steps_done, run_input, output_data,
    output_file, returned, run_error, upc

cvars == <<text, max_chunk_size, overlap, start, chunks, windows, cpc>>
rvars == <<content, max_length, refined_text, rpc>>
mvars == <<query_embedding, embedded_sections, top_k, ranked_sections,
           merged_sections, section_summaries, subsection_analysis, mpc>>

pvars == <<raw_pages, min_confidence, pages_content, page_idx, headings,
           current_section, sections, ppc>>

evars == <<pdf_files, doc_idx, all_sections, documents_processed, sections_extracted,
           attempts, epc>>

lvars == <<input_file, input_data, loaded, lpc>>

tvars == <<raw_title, formatted_title, tpc>>

uvars == <<run_file, run_json, faults, run_step, steps_done, run_input, output_data,
           output_file, returned, run_error, upc>>

vars == <<cvars, rvars, mvars, pvars, evars, lvars, tvars, uvars>>

----------------------------------------------------------------------------
(* Bounds of the model *)

MaxTextLen == 4
MaxChunkSize == 3
MaxOverlap == 3
MaxContentLen == 5
MaxRefineLen == 4
MaxCands == 3
MaxTopK == 3
MaxPages == 2
MaxDocs == 2
MaxViewSections == 7
MaxTitleLen == 4
MaxOverrun == 2

----------------------------------------------------------------------------
(* Python string primitives *)

Min(a, b) == IF a < b THEN a ELSE b
Max(a, b) == IF a > b THEN a ELSE b

\* least and greatest element of a non-empty set of integers
SetMin(S) == CHOOSE x \in S : \A y \in S : x <= y
SetMax(S) == 0 - SetMin({0 - x : x \in S})

\* str.isspace() for one character
IsSpace(c) == c \in {" ", "\n", "\t"}

\* s[a:b] for 0 <= a, 0 <= b
Slice(s, a, b) == SubSeq(s, a + 1, Min(b, Len(s)))

\* s.rfind(ch, a, b): highest 0-based index in [a, min(b, len)) holding ch, else -1
RFind(s, ch, a, b) ==
    LET hits == {i \in a .. (Min(b, Len(s)) - 1) : s[i + 1] = ch}
    IN  IF hits = {} THEN -1 ELSE SetMax(hits)

\* s.strip()
Strip(s) ==
    LET solid == {i \in 1 .. Len(s) : ~IsSpace(s[i])}
    IN  IF solid = {} THEN <<>>
        ELSE SubSeq(s, SetMin(solid), SetMax(solid))

\* all strings over alphabet A of length at most n
RECURSIVE StringsUpTo(_, _)
StringsUpTo(A, n) ==
    IF n = 0 THEN {<<>>}
    ELSE LET shorter == StringsUpTo(A, n - 1)
         IN  shorter \cup {Append(s, c) : s \in shorter, c \in A}

----------------------------------------------------------------------------
(* chunk_text, src/src/utils.py:52-91 *)

DefaultMaxChunkSize == 512
DefaultOverlap == 50

ChunkAlphabet == {"a", "b", " ", "\n"}

\* the 600-character text without any space of the worked example
ExampleText == [i \in 1 .. 600 |-> "A"]

ChunkInputs ==
    {[text |-> t, max_chunk_size |-> m, overlap |-> o] :
        t \in StringsUpTo(ChunkAlphabet, MaxTextLen),
        m \in 1 .. MaxChunkSize, o \in 0 .. MaxOverlap}
    \cup {[text |-> ExampleText, max_chunk_size |-> DefaultMaxChunkSize,
           overlap |-> DefaultOverlap]}

\* line 64: if not text or len(text) <= max_chunk_size
ChunkShort(t, m) == t = <<>> \/ Len(t) <= m

\* lines 71-78: the window end after the word-boundary retreat
WindowEnd(t, s, m) ==
    LET end == s + m
        last_space == RFind(t, " ", s, end)
    IN  IF end < Len(t) /\ last_space > s THEN last_space ELSE end

\* line 85
NextStartSkipping(s, end, o) == Max(s + 1, end + o)
NextStartNoOverlap(s, end, o) == Max(s + 1, end)
NextStartStalling(s, end, o) == end - o
NextStart(s, end, o) == Max(s + 1, end - o)

ChunkInit ==
    /\ \E inp \in ChunkInputs :
        /\ text = inp.text
        /\ max_chunk_size = inp.max_chunk_size
        /\ overlap = inp.overlap
    /\ start = 0
    /\ chunks = <<>>
    /\ windows = <<>>
    /\ cpc = "entry"

\* lines 64-68
ChunkEntry ==
    /\ cpc = "entry"
    /\ IF ChunkShort(text, max_chunk_size)
       THEN /\ chunks' = (IF text # <<>> THEN <<text>> ELSE <<>>)
            /\ windows' = (IF text # <<>> THEN <<[s |-> 0, e |-> Len(text)]>> ELSE <<>>)
            /\ cpc' = "done"
       ELSE /\ chunks' = <<>>
            /\ windows' = <<>>
            /\ cpc' = "loop"
    /\ start' = 0
    /\ UNCHANGED <<text, max_chunk_size, overlap>>
    /\ UNCHANGED <<rvars, mvars, pvars, evars, lvars, tvars, uvars>>

\* lines 70-89: one iteration of the while loop
ChunkLoop ==
    /\ cpc = "loop"
    /\ start < Len(text)
    /\ LET end == WindowEnd(text, start, max_chunk_size)
           chunk == Strip(Slice(text, start, end))
       IN  /\ chunks' = (IF chunk # <<>> THEN Append(chunks, chunk) ELSE chunks)
           /\ windows' = (IF chunk # <<>>
                          THEN Append(windows, [s |-> start, e |-> Min(end, Len(text))])
                          ELSE windows)
           /\ start' = NextStart(start, end, overlap)
    /\ cpc' = (IF start' >= Len(text) THEN "done" ELSE "loop")
    /\ UNCHANGED <<text, max_chunk_size, overlap>>
    /\ UNCHANGED <<rvars, mvars, pvars, evars, lvars, tvars, uvars>>

ChunkNext == ChunkEntry \/ ChunkLoop

\* no chunk_text call in progress
ChunkIdle ==
    /\ text = <<>>
    /\ max_chunk_size = DefaultMaxChunkSize
    /\ overlap = DefaultOverlap
    /\ start = 0
    /\ chunks = <<>>
    /\ windows = <<>>
    /\ cpc = "idle"

----------------------------------------------------------------------------
(* SectionMatcher._create_refined_text, src/src/matcher.py:217-254 *)

DefaultMaxLength == 500

\* "No content available."
Placeholder ==
    <<"N", "o", " ", "c", "o", "n", "t", "e", "n", "t", " ",
      "a", "v", "a", "i", "l", "a", "b", "l", "e", ".">>

\* "..."
Ellipsis == <<".", ".", ".">>

\* line 237: truncated = content[:max_length]
PrefixOneMore(c, n) == Slice(c, 0, n + 1)
Prefix(c, n) == Slice(c, 0, n)

\* lines 240-244
LastSentenceEnd(truncated) ==
    LET last_period == RFind(truncated, ".", 0, Len(truncated))
        last_exclamation == RFind(truncated, "!", 0, Len(truncated))
        last_question == RFind(truncated, "?", 0, Len(truncated))
    IN  Max(last_period, Max(last_exclamation, last_question))

\* line 246: last_sentence_end > max_length * 0.7; the product is a binary64
\* number, equal to 7n/10 for every n below 90 and for n = 500
KeepsMostOfTextInclusive(last_sentence_end, n) == 10 * last_sentence_end >= 7 * n
KeepsMostOfText(last_sentence_end, n) == 10 * last_sentence_end > 7 * n

CreateRefinedText(c0, n) ==
    IF c0 = <<>> THEN Placeholder
    ELSE LET c == Strip(c0)
         IN  IF Len(c) <= n THEN c
             ELSE LET truncated == Prefix(c, n)
                      last_sentence_end == LastSentenceEnd(truncated)
                      last_space == RFind(truncated, " ", 0, Len(truncated))
                  IN  IF KeepsMostOfText(last_sentence_end, n)
                      THEN Slice(truncated, 0, last_sentence_end + 1)
                      ELSE IF last_space > 0
                           THEN Slice(truncated, 0, last_space) \o Ellipsis
                           ELSE truncated \o Ellipsis

RefineAlphabet == {"a", " ", ".", "!"}

RefineInit ==
    /\ content \in StringsUpTo(RefineAlphabet, MaxContentLen)
    /\ max_length \in 0 .. MaxRefineLen
    /\ refined_text = <<>>
    /\ rpc = "call"

RefineCall ==
    /\ rpc = "call"
    /\ refined_text' = CreateRefinedText(content, max_length)
    /\ rpc' = "done"
    /\ UNCHANGED <<content, max_length>>
    /\ UNCHANGED <<cvars, mvars, pvars, evars, lvars, tvars, uvars>>

RefineNext == RefineCall

\* contents of len letters, with mark at 0-based index p and a space at index
\* q (no mark when p < 0, no space when q < 0)
Marked(len, mark, p, q) ==
    [i \in 1 .. len |-> IF i = p + 1 THEN mark ELSE IF i = q + 1 THEN " " ELSE "a"]

\* the limits tried: a short one and the default
BoundaryLengths == {10, DefaultMaxLength}

\* contents longer than the limit n whose last sentence end lies just below,
\* at, or just above 70% of n, or that have none
BoundaryContents(n) ==
    {Marked(n + k, mark, p, q) :
        k \in 1 .. MaxOverrun, mark \in {".", "!", "?"},
        p \in {-1, (7 * n) \div 10 - 1, (7 * n) \div 10, (7 * n) \div 10 + 1},
        q \in {-1, 3, n - 1}}

\* _create_refined_text around the 70% mark
BoundaryInit ==
    /\ max_length \in BoundaryLengths
    /\ content \in BoundaryContents(max_length)
    /\ refined_text = <<>>
    /\ rpc = "call"

RefineIdle ==
    /\ content = <<>>
    /\ max_length = DefaultMaxLength
    /\ refined_text = <<>>
    /\ rpc = "idle"

----------------------------------------------------------------------------
(* Section records: Python dicts, modelled as functions from field names.   *)
(* Texts are character sequences; document and title are opaque strings.    *)

\* dict.get(f, d)
Get(r, f, d) == IF f \in DOMAIN r THEN r[f] ELSE d

\* d[f] = v
Put(r, f, v) == [g \in DOMAIN r \cup {f} |-> IF g = f THEN v ELSE r[g]]

\* d.pop(f, None) for every f in fields
Pop(r, fields) == [g \in DOMAIN r \ fields |-> r[g]]

----------------------------------------------------------------------------
(* calculate_cosine_similarity, src/src/embeddings.py:180-202              *)
(* Embeddings are integer vectors of integer norm, so that the score       *)
(* (cos + 1) / 2 is an exact multiple of 0.0001; scores are held in units  *)
(* of 0.0001 (10000 = 1.0).                                                *)

Dot(a, b) == a[1] * b[1] + a[2] * b[2]

\* np.linalg.norm: the square root, rounded to the nearest representable
\* number; the numbers representable here are the integers, so the norm is
\* exact for the vectors of integer norm and rounded for the others
Norm(a) ==
    CHOOSE n \in 0 .. Dot(a, a) :
        /\ n = 0 \/ (2 * n - 1) * (2 * n - 1) <= 4 * Dot(a, a)
        /\ 4 * Dot(a, a) < (2 * n + 1) * (2 * n + 1)

\* lines 197-198 left out: a zero norm is scored like orthogonal vectors
CalculateCosineSimilarityNoGuard(embedding1, embedding2) ==
    LET norm1 == Norm(embedding1)
        norm2 == Norm(embedding2)
    IN  IF norm1 = 0 \/ norm2 = 0 THEN 5000
        ELSE (5000 * (Dot(embedding1, embedding2) + norm1 * norm2)) \div (norm1 * norm2)
CalculateCosineSimilarity(embedding1, embedding2) ==
    LET norm1 == Norm(embedding1)
        norm2 == Norm(embedding2)
    IN  IF norm1 = 0 \/ norm2 = 0 THEN 0
        ELSE (5000 * (Dot(embedding1, embedding2) + norm1 * norm2)) \div (norm1 * norm2)

----------------------------------------------------------------------------
(* SectionMatcher, src/src/matcher.py *)

\* line 14: min_similarity_threshold = 0.3, in units of 0.0001
MinSimilarityThreshold == 3000

\* line 186: max_subsections
MaxSubsections == 5

Score(x) == x["similarity_score"]

\* list.sort(key=similarity_score, reverse=True): stable, equal scores keep
\* their order
InsertByScoreDescUnstable(sorted, x) ==
    LET later == {i \in 1 .. Len(sorted) : Score(sorted[i]) <= Score(x)}
        at == IF later = {} THEN Len(sorted) + 1
              ELSE CHOOSE i \in later : \A j \in later : i <= j
    IN  SubSeq(sorted, 1, at - 1) \o <<x>> \o SubSeq(sorted, at, Len(sorted))
InsertByScoreDesc(sorted, x) ==
    LET later == {i \in 1 .. Len(sorted) : Score(sorted[i]) < Score(x)}
        at == IF later = {} THEN Len(sorted) + 1
              ELSE CHOOSE i \in later : \A j \in later : i <= j
    IN  SubSeq(sorted, 1, at - 1) \o <<x>> \o SubSeq(sorted, at, Len(sorted))

RECURSIVE SortByScoreDesc(_)
SortByScoreDesc(s) ==
    IF s = <<>> THEN <<>>
    ELSE InsertByScoreDesc(SortByScoreDesc(SubSeq(s, 1, Len(s) - 1)), s[Len(s)])

\* lines 39-53: the candidates kept, each copied with its score
ScoredSections(query, candidates) ==
    LET kept == SelectSeq(candidates, LAMBDA section :
                    /\ "embedding" \in DOMAIN section
                    /\ CalculateCosineSimilarity(query, section["embedding"])
                          >= MinSimilarityThreshold)
    IN  [i \in 1 .. Len(kept) |->
            Put(kept[i], "similarity_score",
                CalculateCosineSimilarity(query, kept[i]["embedding"]))]

\* line 59: scored_sections[:top_k]
TopKOneMore(scored, k) == Slice(scored, 0, k + 1)
TopK(scored, k) == Slice(scored, 0, k)

\* rank_sections, lines 23-59
RankSections(query, candidates, k) ==
    TopK(SortByScoreDesc(ScoredSections(query, candidates)), k)

\* lines 97-101
Key(section) ==
    <<Get(section, "document", ""), Get(section, "title", ""),
      Get(section, "page_number", 0)>>

\* lines 94-106: the keys of section_groups in insertion order
RECURSIVE KeysInOrder(_)
KeysInOrderRepeating(s) == [i \in 1 .. Len(s) |-> Key(s[i])]
KeysInOrder(s) ==
    IF s = <<>> THEN <<>>
    ELSE LET front == KeysInOrder(SubSeq(s, 1, Len(s) - 1))
             key == Key(s[Len(s)])
         IN  IF \E i \in 1 .. Len(front) : front[i] = key THEN front
             ELSE Append(front, key)

\* section_groups[key]
Group(s, key) == SelectSeq(s, LAMBDA section : Key(section) = key)

\* line 138: max(chunks, key=similarity_score) returns the first maximum
BestChunkFirstMember(members) == members[1]
BestChunk(members) ==
    members[CHOOSE i \in 1 .. Len(members) :
            /\ \A j \in 1 .. Len(members) :
                Get(members[j], "similarity_score", 0) <= Get(members[i], "similarity_score", 0)
            /\ \A j \in 1 .. (i - 1) :
                Get(members[j], "similarity_score", 0) < Get(members[i], "similarity_score", 0)]

\* line 144: sorted(chunks, key=chunk_id), stable
InsertByChunkId(sorted, x) ==
    LET later == {i \in 1 .. Len(sorted) :
                    Get(sorted[i], "chunk_id", 0) > Get(x, "chunk_id", 0)}
        at == IF later = {} THEN Len(sorted) + 1
              ELSE CHOOSE i \in later : \A j \in later : i <= j
    IN  SubSeq(sorted, 1, at - 1) \o <<x>> \o SubSeq(sorted, at, Len(sorted))

RECURSIVE SortByChunkId(_)
SortByChunkIdUnsorted(s) == s
SortByChunkId(s) ==
    IF s = <<>> THEN <<>>
    ELSE InsertByChunkId(SortByChunkId(SubSeq(s, 1, Len(s) - 1)), s[Len(s)])

\* line 145
ChunkTextOf(chunk) == Get(chunk, "chunk_text", Get(chunk, "content", <<>>))

\* ' '.join(texts)
RECURSIVE Join(_)
Join(texts) ==
    IF texts = <<>> THEN <<>>
    ELSE IF Len(texts) = 1 THEN texts[1]
    ELSE texts[1] \o <<" ">> \o Join(Tail(texts))

ChunkFields == {"chunk_id", "chunk_text", "is_chunked", "total_chunks"}

\* _merge_section_chunks, lines 124-158
MergeSectionChunks(members) ==
    IF members = <<>> THEN <<>>
    ELSE LET ordered == SortByChunkId(members)
             all_chunk_texts ==
                 SelectSeq([i \in 1 .. Len(ordered) |-> ChunkTextOf(ordered[i])],
                           LAMBDA t : t # <<>>)
             chunk_similarities ==
                 [i \in 1 .. Len(members) |-> Get(members[i], "similarity_score", 0)]
             merged == Put(Put(Put(BestChunk(members),
                                   "content", Join(all_chunk_texts)),
                               "merged_chunks", Len(members)),
                           "chunk_similarities", chunk_similarities)
         IN  Pop(merged, ChunkFields)

\* merge_chunked_sections, lines 83-122
MergeChunkedSections(ranked) ==
    LET keys == KeysInOrder(ranked)
        merged == [i \in 1 .. Len(keys) |->
                     LET members == Group(ranked, keys[i])
                     IN  IF Len(members) = 1 THEN members[1]
                         ELSE MergeSectionChunks(members)]
    IN  SortByScoreDesc(merged)

\* round(x, 4): scores are already whole multiples of 0.0001
Round4(x) == x

\* create_section_summaries, lines 160-183 (enumerate is 0-based, i is 1-based)
ImportanceRankZeroBased(i) == i - 1
ImportanceRank(i) == (i - 1) + 1

CreateSectionSummaries(ranked) ==
    [i \in 1 .. Len(ranked) |->
        [document |-> Get(ranked[i], "document", "unknown"),
         section_title |-> Get(ranked[i], "title", "Untitled"),
         importance_rank |-> ImportanceRank(i),
         page_number |-> Get(ranked[i], "page_number", 0),
         similarity_score |-> Round4(Get(ranked[i], "similarity_score", 0))]]

\* create_subsection_analysis, lines 185-215
CreateSubsectionAnalysisUncapped(ranked, max_subsections) ==
    [i \in 1 .. Len(ranked) |->
        [document |-> Get(ranked[i], "document", "unknown"),
         section_title |-> Get(ranked[i], "title", "Untitled"),
         refined_text |-> CreateRefinedText(Get(ranked[i], "content", <<>>),
                                            DefaultMaxLength),
         page_number |-> Get(ranked[i], "page_number", 0),
         similarity_score |-> Round4(Get(ranked[i], "similarity_score", 0))]]
CreateSubsectionAnalysis(ranked, max_subsections) ==
    LET top == Slice(ranked, 0, max_subsections)
    IN  [i \in 1 .. Len(top) |->
            [document |-> Get(top[i], "document", "unknown"),
             section_title |-> Get(top[i], "title", "Untitled"),
             refined_text |-> CreateRefinedText(Get(top[i], "content", <<>>),
                                                DefaultMaxLength),
             page_number |-> Get(top[i], "page_number", 0),
             similarity_score |-> Round4(Get(top[i], "similarity_score", 0))]]

----------------------------------------------------------------------------
(* Candidates, as create_section_embeddings builds them                    *)
(* (src/src/embeddings.py:93-115)                                          *)

\* a chunk of the section key = (doc, title, page), lines 97-104
ChunkCandidate(key, id, total, emb) ==
    [document |-> key[1], title |-> key[2], page_number |-> key[3],
     content |-> <<"s", "e", "c">>,
     chunk_id |-> id, chunk_text |-> <<"c", ToString(id)>>,
     embedding |-> emb, is_chunked |-> TRUE, total_chunks |-> total]

\* a section embedded whole, lines 110-115
WholeCandidate(key, emb) ==
    [document |-> key[1], title |-> key[2], page_number |-> key[3],
     content |-> <<"w", "h">>, embedding |-> emb, is_chunked |-> FALSE]

QueryVectors == {<<1, 0>>, <<0, 1>>}

\* scores against <<1, 0>>: 0.9, 1.0, 0.2; against <<0, 1>>: 0.8, 0.5, 0.9
Embeddings == {<<4, 3>>, <<5, 0>>, <<-3, 4>>}

\* sections differ pairwise in one component of the identity key
SectionKeys == {<<"d1", "t1", 1>>, <<"d1", "t1", 2>>, <<"d2", "t1", 1>>}

\* the candidates of one section: embedded whole, or as chunks 0 .. n-1
SectionCandidates(key, room) ==
    {<<WholeCandidate(key, emb)>> : emb \in Embeddings}
    \cup UNION {{[i \in 1 .. n |-> ChunkCandidate(key, i - 1, n, embs[i])] :
                    embs \in [1 .. n -> Embeddings]} : n \in 2 .. room}

\* create_section_embeddings over sections of distinct keys, at most room
\* candidates in all
RECURSIVE EmbeddedLists(_, _)
EmbeddedLists(keys, room) ==
    {<<>>} \cup
    UNION {UNION {{group \o rest : rest \in EmbeddedLists(keys \ {key}, room - Len(group))} :
                     group \in SectionCandidates(key, room)} :
              key \in (IF room > 0 THEN keys ELSE {})}

\* pool of scored candidates handed to merge_chunked_sections directly, in
\* any order
MergePool ==
    {Put(c, "similarity_score", CalculateCosineSimilarity(<<1, 0>>, c["embedding"])) :
        c \in {ChunkCandidate(<<"d1", "t1", 1>>, id, 3, emb) :
                  id \in {0, 1, 2}, emb \in {<<3, 4>>, <<4, 3>>, <<5, 0>>}}
              \cup {WholeCandidate(<<"d1", "t1", 2>>, emb) : emb \in {<<4, 3>>, <<5, 0>>}}
              \cup {WholeCandidate(<<"d1", "t2", 1>>, <<4, 3>>),
                    WholeCandidate(<<"d2", "t1", 1>>, <<4, 3>>)}}

\* all lists over pool of length at most n
RECURSIVE ListsUpTo(_, _)
ListsUpTo(pool, n) ==
    IF n = 0 THEN {<<>>}
    ELSE LET shorter == ListsUpTo(pool, n - 1)
         IN  shorter \cup {Append(s, c) : s \in shorter, c \in pool}

----------------------------------------------------------------------------
(* match_and_rank_sections, src/src/matcher.py:257-283 *)

MatchInit ==
    /\ query_embedding \in QueryVectors
    /\ embedded_sections \in EmbeddedLists(SectionKeys, MaxCands)
    /\ top_k \in 0 .. MaxTopK
    /\ ranked_sections = <<>>
    /\ merged_sections = <<>>
    /\ section_summaries = <<>>
    /\ subsection_analysis = <<>>
    /\ mpc = "rank"

\* merge_chunked_sections called directly
MergeInit ==
    /\ query_embedding = <<1, 0>>
    /\ embedded_sections = <<>>
    /\ top_k = MaxCands
    /\ ranked_sections \in ListsUpTo(MergePool, MaxCands)
    /\ merged_sections = <<>>
    /\ section_summaries = <<>>
    /\ subsection_analysis = <<>>
    /\ mpc = "merge"

\* line 274
Rank ==
    /\ mpc = "rank"
    /\ ranked_sections' = RankSections(query_embedding, embedded_sections, top_k)
    /\ mpc' = "merge"
    /\ UNCHANGED <<query_embedding, embedded_sections, top_k, merged_sections,
                   section_summaries, subsection_analysis>>
    /\ UNCHANGED <<cvars, rvars, pvars, evars, lvars, tvars, uvars>>

\* line 277
Merge ==
    /\ mpc = "merge"
    /\ merged_sections' = MergeChunkedSections(ranked_sections)
    /\ mpc' = "output"
    /\ UNCHANGED <<query_embedding, embedded_sections, top_k, ranked_sections,
                   section_summaries, subsection_analysis>>
    /\ UNCHANGED <<cvars, rvars, pvars, evars, lvars, tvars, uvars>>

\* lines 280-283
Output ==
    /\ mpc = "output"
    /\ section_summaries' = CreateSectionSummaries(merged_sections)
    /\ subsection_analysis' = CreateSubsectionAnalysis(merged_sections, MaxSubsections)
    /\ mpc' = "done"
    /\ UNCHANGED <<query_embedding, embedded_sections, top_k, ranked_sections,
                   merged_sections>>
    /\ UNCHANGED <<cvars, rvars, pvars, evars, lvars, tvars, uvars>>

MatchNext == Rank \/ Merge \/ Output

\* main.py:212: top_k=10
DefaultTopK == 10

\* match_and_rank_sections as _match_sections calls it, on sections of
\* pairwise distinct pages, each embedded whole
ViewsInit ==
    /\ query_embedding = <<1, 0>>
    /\ embedded_sections \in
          UNION {{[i \in 1 .. n |-> WholeCandidate(<<"d1", "t1", i>>, embs[i])] :
                     embs \in [1 .. n -> Embeddings]} : n \in 0 .. MaxViewSections}
    /\ top_k = DefaultTopK
    /\ ranked_sections = <<>>
    /\ merged_sections = <<>>
    /\ section_summaries = <<>>
    /\ subsection_analysis = <<>>
    /\ mpc = "rank"

\* vectors handed to calculate_cosine_similarity: the zero vector, vectors of
\* integer norm in every quadrant, and vectors whose norm is not an integer
ScoreVectors ==
    {<<0, 0>>, <<1, 0>>, <<0, 1>>, <<-1, 0>>, <<5, 0>>, <<3, 4>>, <<4, 3>>, <<-3, 4>>,
     <<-4, -3>>, <<1, 5>>, <<-1, -5>>, <<2, 2>>}

\* match_and_rank_sections on one section embedded whole
SimilarityInit ==
    /\ query_embedding \in ScoreVectors
    /\ embedded_sections \in
          {<<WholeCandidate(<<"d1", "t1", 1>>, emb)>> : emb \in ScoreVectors}
    /\ top_k \in 1 .. MaxTopK
    /\ ranked_sections = <<>>
    /\ merged_sections = <<>>
    /\ section_summaries = <<>>
    /\ subsection_analysis = <<>>
    /\ mpc = "rank"

MergeNext == Merge \/ Output

MatchIdle ==
    /\ query_embedding = <<0, 0>>
    /\ embedded_sections = <<>>
    /\ top_k = 0
    /\ ranked_sections = <<>>
    /\ merged_sections = <<>>
    /\ section_summaries = <<>>
    /\ subsection_analysis = <<>>
    /\ mpc = "idle"

----------------------------------------------------------------------------
(* Characters and Python str methods used by the parser *)

UpperChars == <<"A", "B", "C", "D", "E", "F", "G", "H", "I", "J", "K", "L", "M", "N", "O", "P", "Q", "R", "S", "T", "U", "V", "W", "X", "Y", "Z">>
LowerChars == <<"a", "b", "c", "d", "e", "f", "g", "h", "i", "j", "k", "l", "m", "n", "o", "p", "q", "r", "s", "t", "u", "v", "w", "x", "y", "z">>
Digits == {"0", "1", "2", "3", "4", "5", "6", "7", "8", "9"}

Range(f) == {f[i] : i \in DOMAIN f}

UpperSet == Range(UpperChars)
LowerSet == Range(LowerChars)

IsUpperChar(c) == c \in UpperSet
IsLowerChar(c) == c \in LowerSet

\* c.lower()
ToLower(c) ==
    IF IsUpperChar(c) THEN LowerChars[CHOOSE i \in 1 .. 26 : UpperChars[i] = c] ELSE c

\* c.upper()
ToUpper(c) ==
    IF IsLowerChar(c) THEN UpperChars[CHOOSE i \in 1 .. 26 : LowerChars[i] = c] ELSE c

\* s.lower()
Lower(s) == [i \in 1 .. Len(s) |-> ToLower(s[i])]

\* s.isupper(): some cased character, and no lowercase one
IsUpperStr(s) ==
    /\ \E i \in 1 .. Len(s) : IsUpperChar(s[i])
    /\ \A i \in 1 .. Len(s) : ~IsLowerChar(s[i])

\* s.title(): first letter of every run of letters upper, the others lower
TitleCase(s) ==
    [i \in 1 .. Len(s) |->
        IF i > 1 /\ (IsUpperChar(s[i - 1]) \/ IsLowerChar(s[i - 1]))
        THEN ToLower(s[i]) ELSE ToUpper(s[i])]

\* sub in s
Contains(s, sub) ==
    \E i \in 0 .. (Len(s) - Len(sub)) : SubSeq(s, i + 1, i + Len(sub)) = sub

\* s.startswith(prefix)
StartsWith(s, prefix) == Len(s) >= Len(prefix) /\ SubSeq(s, 1, Len(prefix)) = prefix

\* s.endswith(ch)
EndsWith(s, ch) == Len(s) >= 1 /\ s[Len(s)] = ch

\* s.split(sep): the pieces between occurrences of the character sep
RECURSIVE SplitOn(_, _)
SplitOn(s, sep) ==
    LET hits == {i \in 1 .. Len(s) : s[i] = sep}
    IN  IF hits = {} THEN <<s>>
        ELSE LET last == SetMax(hits)
             IN  Append(SplitOn(SubSeq(s, 1, last - 1), sep), SubSeq(s, last + 1, Len(s)))

\* s.split(): the maximal runs of non-whitespace characters
RECURSIVE Words(_)
Words(s) ==
    LET t == Strip(s)
        gaps == {i \in 1 .. Len(t) : IsSpace(t[i])}
    IN  IF t = <<>> THEN <<>>
        ELSE IF gaps = {} THEN <<t>>
        ELSE LET last == SetMax(gaps)
             IN  Append(Words(SubSeq(t, 1, last - 1)), SubSeq(t, last + 1, Len(t)))

\* clean_text, src/src/utils.py:36-49
CleanTextKeepingBreaks(t) == Strip(t)
CleanText(t) == IF t = <<>> THEN <<>> ELSE Strip(Join(Words(t)))

\* format_section_title, src/src/utils.py:94-106
UntitledSection == <<"U", "n", "t", "i", "t", "l", "e", "d", " ", "S", "e", "c", "t", "i", "o", "n">>

FormatSectionTitle(title) ==
    IF title = <<>> THEN UntitledSection
    ELSE LET cleaned == CleanText(title)
         IN  IF IsUpperStr(cleaned) THEN TitleCase(cleaned) ELSE cleaned

----------------------------------------------------------------------------
(* PDFParser heading classifier, src/src/parser.py:34-145 *)

MinHeadingLength == 3
MaxHeadingLength == 200
DefaultMinConfidence == 30

\* s is one or more groups "digits." : (\d+\.)+
IsNumbering(s) ==
    /\ Len(s) >= 2
    /\ s[1] \in Digits
    /\ s[Len(s)] = "."
    /\ \A i \in 1 .. Len(s) : s[i] \in Digits \cup {"."}
    /\ \A i \in 1 .. (Len(s) - 1) : ~(s[i] = "." /\ s[i + 1] = ".")

\* r'^(\d+\.)+\s*(.+)$'
MatchesNumbered(line) ==
    \E p \in 1 .. (Len(line) - 1) : IsNumbering(SubSeq(line, 1, p))

\* r'^[IVX]+\.\s*(.+)$'
MatchesRoman(line) ==
    \E p \in 1 .. (Len(line) - 2) :
        /\ \A i \in 1 .. p : line[i] \in {"I", "V", "X"}
        /\ line[p + 1] = "."

\* r'^[A-Z]\.\s*(.+)$'
MatchesLetter(line) ==
    Len(line) >= 3 /\ IsUpperChar(line[1]) /\ line[2] = "."

\* r'^[A-Z\s]{3,}$'
MatchesAllCaps(line) ==
    Len(line) >= 3 /\ \A i \in 1 .. Len(line) : IsUpperChar(line[i]) \/ IsSpace(line[i])

\* r'^[A-Z][a-z]+(\s+[A-Z][a-z]*)+.*$'
\* (each run is maximal: the lowercase run must be followed by whitespace
\* and the whitespace run by a capital)
MatchesTitleCase(line) ==
    /\ Len(line) >= 4
    /\ IsUpperChar(line[1])
    /\ LET after_lower == {i \in 2 .. Len(line) : ~IsLowerChar(line[i])}
           gap == IF after_lower = {} THEN 0 ELSE SetMin(after_lower)
           after_gap == {i \in gap .. Len(line) : ~IsSpace(line[i])}
       IN  /\ gap >= 3
           /\ IsSpace(line[gap])
           /\ after_gap # {}
           /\ IsUpperChar(line[SetMin(after_gap)])

\* lines 112-115: the first matching pattern adds 30, once
PatternScore(line) ==
    IF \/ MatchesNumbered(line) \/ MatchesRoman(line) \/ MatchesLetter(line)
       \/ MatchesAllCaps(line) \/ MatchesTitleCase(line)
    THEN 30 ELSE 0

\* lines 120-121
LengthScore(line) == IF Len(line) < 80 THEN 10 ELSE 0

\* lines 124-125
ColonScore(line) == IF EndsWith(line, ":") THEN 15 ELSE 0

\* lines 128-130
WordCapsScore(line) ==
    LET words == Words(line)
    IN  IF Len(words) >= 2 /\ \A i \in 1 .. Len(words) : IsUpperChar(words[i][1])
        THEN 20 ELSE 0

\* lines 133-134
AllCapsScore(line) == IF IsUpperStr(line) /\ Len(line) < 50 THEN 25 ELSE 0

\* line 137
ProseIndicators ==
    {<<".">>, <<",">>, <<";">>, <<"?">>, <<"!">>, <<"t", "h", "e">>, <<"a", "n", "d">>, <<"o", "f">>, <<"i", "n">>, <<"t", "o">>}

\* lines 137-138: an indicator anywhere in the lowercased line
ProsePenaltyWholeWords(line) ==
    IF \E w \in Range(Words(Lower(line))) : w \in ProseIndicators THEN -10 ELSE 0
ProsePenalty(line) ==
    IF \E indicator \in ProseIndicators : Contains(Lower(line), indicator) THEN -10 ELSE 0

\* line 141
SectionStarters ==
    {<<"c", "h", "a", "p", "t", "e", "r">>, <<"s", "e", "c", "t", "i", "o", "n">>, <<"p", "a", "r", "t">>, <<"a", "p", "p", "e", "n", "d", "i", "x">>,
     <<"i", "n", "t", "r", "o", "d", "u", "c", "t", "i", "o", "n">>, <<"c", "o", "n", "c", "l", "u", "s", "i", "o", "n">>, <<"s", "u", "m", "m", "a", "r", "y">>, <<"o", "v", "e", "r", "v", "i", "e", "w">>}

\* lines 141-143
StarterScore(line) ==
    IF \E starter \in SectionStarters : StartsWith(Lower(line), starter) THEN 20 ELSE 0

\* _calculate_heading_confidence, lines 104-145
CalculateHeadingConfidence(line) ==
    LET confidence == PatternScore(Strip(line)) + LengthScore(line) + ColonScore(line)
                      + WordCapsScore(line) + AllCapsScore(line) + ProsePenalty(line)
                      + StarterScore(line)
    IN  Max(0, Min(100, confidence))

\* line 94: the lines identify_headings scores
ScoredAnyLength(line) == line # <<>>
Scored(line) ==
    /\ line # <<>>
    /\ ~(Len(line) < MinHeadingLength)
    /\ ~(Len(line) > MaxHeadingLength)

\* identify_headings, lines 80-102
IdentifyHeadings(page_text) ==
    LET lines == SplitOn(page_text, "\n")
        stripped == [i \in 1 .. Len(lines) |-> Strip(lines[i])]
        scored == SelectSeq(stripped, LAMBDA line :
                      Scored(line) /\ CalculateHeadingConfidence(line) > 0)
    IN  [i \in 1 .. Len(scored) |->
            [line |-> scored[i], confidence |-> CalculateHeadingConfidence(scored[i])]]

\* _estimate_heading_level, lines 220-234
CountChar(s, ch) == Cardinality({i \in 1 .. Len(s) : s[i] = ch})

EstimateHeadingLevel(heading) ==
    IF \E p \in 1 .. Len(heading) : IsNumbering(SubSeq(heading, 1, p))
    THEN CountChar(heading, ".")
    ELSE IF IsUpperStr(heading) THEN 1
    ELSE 2

----------------------------------------------------------------------------
(* PDFParser.extract_sections, src/src/parser.py:147-253 *)

MinContentLength == 50

None == [none |-> TRUE]

\* PDFSection.__init__, lines 15-19
PDFSection(title, body, page, level) ==
    [title |-> FormatSectionTitle(title), content |-> CleanText(body),
     page_number |-> page, level |-> level]

\* f"Content from Page {page_num}"
DefaultTitle(page) == <<"C", "o", "n", "t", "e", "n", "t", " ", "f", "r", "o", "m", " ", "P", "a", "g", "e", " ">> \o <<ToString(page)>>

\* current_section.content += " " + more
Extend(section, more) == [section EXCEPT !.content = @ \o <<" ">> \o more]

\* extract_text_from_pdf, lines 64-72: pages with content, cleaned
RECURSIVE ExtractTextFromPdf(_)
ExtractTextFromPdf(raw) ==
    IF raw = <<>> THEN <<>>
    ELSE LET front == ExtractTextFromPdf(SubSeq(raw, 1, Len(raw) - 1))
             page_text == raw[Len(raw)]
         IN  IF Strip(page_text) # <<>>
             THEN Append(front, [page_number |-> Len(raw), text |-> CleanText(page_text)])
             ELSE front

\* line 184
HeadingLines(found, threshold) ==
    {found[i].line : i \in {j \in 1 .. Len(found) : found[j].confidence >= threshold}}

\* lines 188-208: one line of the page; st = [current, buffer, out]
LineStepOpening(st, line, heading_lines, page) ==
    LET line_stripped == Strip(line)
    IN  IF line_stripped \in heading_lines
        THEN [current |-> PDFSection(line_stripped, <<>>, page,
                                     EstimateHeadingLevel(line_stripped)),
              buffer |-> <<>>,
              out |-> IF st.current # None /\ st.buffer # <<>>
                      THEN Append(st.out, Extend(st.current, Join(st.buffer)))
                      ELSE st.out]
        ELSE IF line_stripped = <<>> THEN st
        ELSE [current |-> IF st.current # None THEN st.current
                          ELSE PDFSection(DefaultTitle(page), <<>>, page, 1),
              buffer |-> Append(st.buffer, line_stripped),
              out |-> st.out]
LineStep(st, line, heading_lines, page) ==
    LET line_stripped == Strip(line)
    IN  IF line_stripped \in heading_lines
        THEN [current |-> PDFSection(line_stripped, <<>>, page,
                                     EstimateHeadingLevel(line_stripped)),
              buffer |-> <<>>,
              out |-> IF st.current # None /\ st.buffer # <<>>
                      THEN Append(st.out, Extend(st.current, Join(st.buffer)))
                      ELSE st.out]
        ELSE [st EXCEPT !.buffer = IF line_stripped # <<>>
                                   THEN Append(@, line_stripped) ELSE @]

RECURSIVE LineLoop(_, _, _, _)
LineLoop(st, lines, heading_lines, page) ==
    IF lines = <<>> THEN st
    ELSE LineLoop(LineStep(st, Head(lines), heading_lines, page),
                  Tail(lines), heading_lines, page)

\* _post_process_sections, lines 236-253
PostProcessSectionsKeepAll(found) ==
    [i \in 1 .. Len(found) |-> [found[i] EXCEPT !.content = CleanText(@)]]
PostProcessSections(found) ==
    LET kept == SelectSeq(found, LAMBDA section :
                    ~(Len(Strip(section.content)) < MinContentLength))
    IN  [i \in 1 .. Len(kept) |-> [kept[i] EXCEPT !.content = CleanText(@)]]

\* raw page texts, as page.get_text() returns them
Introduction == <<"I", "N", "T", "R", "O", "D", "U", "C", "T", "I", "O", "N">>

\* a lowercase sentence of n characters, ending in a full stop
Sentence(n) == [i \in 1 .. n |-> IF i = n THEN "." ELSE "b"]

\* a page text with a run of whitespace and line breaks
KeyFactsRaw == <<"K", "E", "Y", " ", "\n", "\n", " ", "F", "A", "C", "T", "S", "\n">>

RawTexts ==
    {Introduction,
     Sentence(MinContentLength - 1),
     Sentence(MinContentLength),
     <<"A", "B">>,
     <<"A", "B", "C">>,
     [i \in 1 .. MaxHeadingLength |-> "A"],
     [i \in 1 .. (MaxHeadingLength + 1) |-> "A"],
     <<"p", "l", "a", "i", "n", " ", "b", "o", "d", "y", " ", "t", "e", "x", "t", ".">>,
     <<"b", "o", "d", "y">>,
     <<"I", "N", "T", "R", "O", "D", "U", "C", "T", "I", "O", "N", "\n", "b", "o", "d", "y">>,
     <<"2", ".", "1", " ", "F", "o", "o">>,
     KeyFactsRaw,
     <<" ", "\n">>}

ParseInit ==
    /\ raw_pages \in ListsUpTo(RawTexts, MaxPages)
    /\ min_confidence = DefaultMinConfidence
    /\ pages_content = <<>>
    /\ page_idx = 0
    /\ headings = <<>>
    /\ current_section = None
    /\ sections = <<>>
    /\ ppc = "extract"

\* line 158
ExtractText ==
    /\ ppc = "extract"
    /\ pages_content' = ExtractTextFromPdf(raw_pages)
    /\ page_idx' = 1
    /\ ppc' = "pages"
    /\ UNCHANGED <<raw_pages, min_confidence, headings, current_section, sections>>
    /\ UNCHANGED <<cvars, rvars, mvars, evars, lvars, tvars, uvars>>

\* lines 162-180: a page on which identify_headings reports nothing
PageWithoutHeadings ==
    /\ ppc = "pages"
    /\ page_idx <= Len(pages_content)
    /\ LET page_num == pages_content[page_idx].page_number
           page_text == pages_content[page_idx].text
       IN  /\ IdentifyHeadings(page_text) = <<>>
           /\ headings' = <<>>
           /\ current_section' =
                 IF current_section # None THEN Extend(current_section, page_text)
                 ELSE PDFSection(DefaultTitle(page_num), page_text, page_num, 1)
    /\ page_idx' = page_idx + 1
    /\ UNCHANGED <<raw_pages, min_confidence, pages_content, sections, ppc>>
    /\ UNCHANGED <<cvars, rvars, mvars, evars, lvars, tvars, uvars>>

\* lines 162-212: a page on which identify_headings reports some line
PageWithHeadings ==
    /\ ppc = "pages"
    /\ page_idx <= Len(pages_content)
    /\ LET page_num == pages_content[page_idx].page_number
           page_text == pages_content[page_idx].text
           found == IdentifyHeadings(page_text)
           st == LineLoop([current |-> current_section, buffer |-> <<>>, out |-> sections],
                          SplitOn(page_text, "\n"),
                          HeadingLines(found, min_confidence), page_num)
       IN  /\ found # <<>>
           /\ headings' = found
           /\ sections' = st.out
           /\ current_section' =
                 IF st.current # None /\ st.buffer # <<>>
                 THEN Extend(st.current, Join(st.buffer))
                 ELSE st.current
    /\ page_idx' = page_idx + 1
    /\ UNCHANGED <<raw_pages, min_confidence, pages_content, ppc>>
    /\ UNCHANGED <<cvars, rvars, mvars, evars, lvars, tvars, uvars>>

\* lines 214-218: after the last page
FinishSections ==
    /\ ppc = "pages"
    /\ page_idx > Len(pages_content)
    /\ sections' = PostProcessSections(IF current_section # None
                                       THEN Append(sections, current_section)
                                       ELSE sections)
    /\ ppc' = "done"
    /\ UNCHANGED <<raw_pages, min_confidence, pages_content, page_idx, headings,
                   current_section>>
    /\ UNCHANGED <<cvars, rvars, mvars, evars, lvars, tvars, uvars>>

ParseNext == ExtractText \/ PageWithoutHeadings \/ PageWithHeadings \/ FinishSections

ParseIdle ==
    /\ raw_pages = <<>>
    /\ min_confidence = DefaultMinConfidence
    /\ pages_content = <<>>
    /\ page_idx = 0
    /\ headings = <<>>
    /\ current_section = None
    /\ sections = <<>>
    /\ ppc = "idle"

----------------------------------------------------------------------------
(* DocumentIntelligencePipeline._extract_all_sections,                     *)
(* src/src/main.py:159-195                                                 *)

\* os.path.basename(doc_path)
Basename(doc) == doc.name \o doc.ext

\* line 168: doc_path.lower().endswith('.pdf')
IsPdfPath(doc) == Lower(doc.ext) = <<".", "p", "d", "f">>

\* what parse_document does with a document: it raises, or it returns the
\* document's sections
ParseOutcomes ==
    {[error |-> TRUE, sections |-> <<>>],
     [error |-> FALSE, sections |-> <<>>],
     [error |-> FALSE, sections |-> <<[title |-> "t1", page_number |-> 1]>>],
     [error |-> FALSE, sections |-> <<[title |-> "t1", page_number |-> 1],
                                     [title |-> "t2", page_number |-> 2]>>]}

\* the documents handed to _extract_all_sections
Documents ==
    [dir : {"in"}, name : {<<"a">>, <<"b">>},
     ext : {<<".", "p", "d", "f">>, <<".", "P", "D", "F">>, <<".", "t", "x", "t">>},
     exists : BOOLEAN, outcome : ParseOutcomes]

\* lines 178-180: section['document'] = doc_name for each section
Tagged(found, doc_name) == [i \in 1 .. Len(found) |-> Put(found[i], "document", doc_name)]

ExtractInit ==
    /\ pdf_files \in ListsUpTo(Documents, MaxDocs)
    /\ doc_idx = 1
    /\ all_sections = <<>>
    /\ documents_processed = 0
    /\ sections_extracted = 0
    /\ attempts = [i \in 1 .. Len(pdf_files) |-> 0]
    /\ epc = "loop"

\* lines 164-166
SkipMissing ==
    /\ epc = "loop"
    /\ doc_idx <= Len(pdf_files)
    /\ ~pdf_files[doc_idx].exists
    /\ doc_idx' = doc_idx + 1
    /\ UNCHANGED <<pdf_files, all_sections, documents_processed, sections_extracted,
                   attempts, epc>>
    /\ UNCHANGED <<cvars, rvars, mvars, pvars, lvars, tvars, uvars>>

\* lines 168-171
SkipNonPdf ==
    /\ epc = "loop"
    /\ doc_idx <= Len(pdf_files)
    /\ pdf_files[doc_idx].exists
    /\ ~IsPdfPath(pdf_files[doc_idx])
    /\ doc_idx' = doc_idx + 1
    /\ UNCHANGED <<pdf_files, all_sections, documents_processed, sections_extracted,
                   attempts, epc>>
    /\ UNCHANGED <<cvars, rvars, mvars, pvars, lvars, tvars, uvars>>

\* lines 173-175, 185-187: parse_document raises
ParseRaisesCounted ==
    /\ epc = "loop"
    /\ doc_idx <= Len(pdf_files)
    /\ pdf_files[doc_idx].exists
    /\ IsPdfPath(pdf_files[doc_idx])
    /\ pdf_files[doc_idx].outcome.error
    /\ attempts' = [attempts EXCEPT ![doc_idx] = @ + 1]
    /\ documents_processed' = documents_processed + 1
    /\ doc_idx' = doc_idx + 1
    /\ UNCHANGED <<pdf_files, all_sections, sections_extracted, epc>>
    /\ UNCHANGED <<cvars, rvars, mvars, pvars, lvars, tvars, uvars>>
ParseRaises ==
    /\ epc = "loop"
    /\ doc_idx <= Len(pdf_files)
    /\ pdf_files[doc_idx].exists
    /\ IsPdfPath(pdf_files[doc_idx])
    /\ pdf_files[doc_idx].outcome.error
    /\ attempts' = [attempts EXCEPT ![doc_idx] = @ + 1]
    /\ doc_idx' = doc_idx + 1
    /\ UNCHANGED <<pdf_files, all_sections, documents_processed, sections_extracted, epc>>
    /\ UNCHANGED <<cvars, rvars, mvars, pvars, lvars, tvars, uvars>>

\* lines 173-183: parse_document returns
ParseReturns ==
    /\ epc = "loop"
    /\ doc_idx <= Len(pdf_files)
    /\ pdf_files[doc_idx].exists
    /\ IsPdfPath(pdf_files[doc_idx])
    /\ ~pdf_files[doc_idx].outcome.error
    /\ attempts' = [attempts EXCEPT ![doc_idx] = @ + 1]
    /\ all_sections' = all_sections \o Tagged(pdf_files[doc_idx].outcome.sections,
                                             Basename(pdf_files[doc_idx]))
    /\ documents_processed' = documents_processed + 1
    /\ doc_idx' = doc_idx + 1
    /\ UNCHANGED <<pdf_files, sections_extracted, epc>>
    /\ UNCHANGED <<cvars, rvars, mvars, pvars, lvars, tvars, uvars>>

\* lines 189-195
ReturnAllSections ==
    /\ epc = "loop"
    /\ doc_idx > Len(pdf_files)
    /\ sections_extracted' = Len(all_sections)
    /\ epc' = "done"
    /\ UNCHANGED <<pdf_files, doc_idx, all_sections, documents_processed, attempts>>
    /\ UNCHANGED <<cvars, rvars, mvars, pvars, lvars, tvars, uvars>>

ExtractNext == SkipMissing \/ SkipNonPdf \/ ParseRaises \/ ParseReturns \/ ReturnAllSections

ExtractIdle ==
    /\ pdf_files = <<>>
    /\ doc_idx = 0
    /\ all_sections = <<>>
    /\ documents_processed = 0
    /\ sections_extracted = 0
    /\ attempts = <<>>
    /\ epc = "idle"

----------------------------------------------------------------------------
(* DocumentIntelligencePipeline._load_and_validate_input,                  *)
(* src/src/main.py:98-129                                                  *)

\* JSON values: a string, an object (its fields), or a list
Str(s) == [type |-> "str", value |-> s]
Obj(fields) == [type |-> "dict", value |-> fields]
List == [type |-> "list", value |-> <<>>]

\* isinstance(v, dict)
IsDict(v) == v.type = "dict"

\* the values the persona field may hold
PersonaValues ==
    {Str("analyst"), List, Obj(<<>>), Obj(Put(<<>>, "role", Str("analyst"))),
     Obj(Put(<<>>, "name", Str("ann")))}

\* the values the job_to_be_done field may hold
JobValues ==
    {Str("review"), List, Obj(<<>>), Obj(Put(<<>>, "task", Str("review"))),
     Obj(Put(<<>>, "goal", Str("review")))}

\* the parsed contents of the input file
InputDocuments ==
    {<<>>} \cup {Put(<<>>, "persona", p) : p \in PersonaValues}
    \cup {Put(<<>>, "job_to_be_done", j) : j \in JobValues}
    \cup {Put(Put(<<>>, "persona", p), "job_to_be_done", j) :
             p \in PersonaValues, j \in JobValues}

\* what the call does: it raises, or it returns the dict
Raise(message) == [raised |-> message, value |-> <<>>]
Return(data) == [raised |-> "none", value |-> data]

\* lines 116-121
PersonaTextWhole(data) == data["persona"]
PersonaText(data) ==
    IF IsDict(data["persona"]) THEN data["persona"].value["role"] ELSE data["persona"]

\* lines 123-127
JobText(data) ==
    IF IsDict(data["job_to_be_done"]) THEN data["job_to_be_done"].value["task"]
    ELSE data["job_to_be_done"]

\* _load_and_validate_input, lines 98-129
LoadAndValidateInput(file, data) ==
    IF file = "missing" THEN Raise("FileNotFoundError")
    ELSE IF file = "malformed" THEN Raise("Failed to parse input JSON file")
    ELSE IF "persona" \notin DOMAIN data
    THEN Raise("Missing required field in input JSON: persona")
    ELSE IF "job_to_be_done" \notin DOMAIN data
    THEN Raise("Missing required field in input JSON: job_to_be_done")
    ELSE IF IsDict(data["persona"]) /\ "role" \notin DOMAIN data["persona"].value
    THEN Raise("Missing 'role' field in persona object")
    ELSE IF IsDict(data["job_to_be_done"]) /\ "task" \notin DOMAIN data["job_to_be_done"].value
    THEN Raise("Missing 'task' field in job_to_be_done object")
    ELSE Return(Put(Put(data, "persona_text", PersonaText(data)),
                    "job_to_be_done_text", JobText(data)))

\* the input file is absent, is not JSON, or holds a JSON object
InputFiles == {"missing", "malformed", "ok"}

LoadInit ==
    /\ input_file \in InputFiles
    /\ input_data \in InputDocuments
    /\ loaded = <<>>
    /\ lpc = "call"

LoadInput ==
    /\ lpc = "call"
    /\ loaded' = LoadAndValidateInput(input_file, input_data)
    /\ lpc' = "done"
    /\ UNCHANGED <<input_file, input_data>>
    /\ UNCHANGED <<cvars, rvars, mvars, pvars, evars, tvars, uvars>>

LoadNext == LoadInput

LoadIdle ==
    /\ input_file = "none"
    /\ input_data = <<>>
    /\ loaded = <<>>
    /\ lpc = "idle"

----------------------------------------------------------------------------
(* format_section_title called on its own, src/src/utils.py:94-106 *)

TitleAlphabet == {"a", "B", " "}

TitleInit ==
    /\ raw_title \in StringsUpTo(TitleAlphabet, MaxTitleLen)
    /\ formatted_title = <<>>
    /\ tpc = "call"

FormatTitle ==
    /\ tpc = "call"
    /\ formatted_title' = FormatSectionTitle(raw_title)
    /\ tpc' = "done"
    /\ UNCHANGED raw_title
    /\ UNCHANGED <<cvars, rvars, mvars, pvars, evars, lvars, uvars>>

TitleNext == FormatTitle

TitleIdle ==
    /\ raw_title = <<>>
    /\ formatted_title = <<>>
    /\ tpc = "idle"

----------------------------------------------------------------------------
(* DocumentIntelligencePipeline.run, src/src/main.py:44-96                 *)

\* the steps of the try block in the order of lines 54-85
StepsSaveEarly ==
    <<"load", "discover", "extract", "embed", "match", "save", "output">>
Steps ==
    <<"load", "discover", "extract", "embed", "match", "output", "save">>

\* the steps that fail for a reason outside the input file: the input
\* directory is missing (line 135), the embedding model or the matching
\* raises, the output directory or file cannot be written (utils.py:25-28)
FaultySteps == {"discover", "embed", "match", "save"}

\* the parsed contents of the input file of a run
RunDocuments ==
    {Put(<<>>, "persona", Str("analyst")),
     Put(Put(<<>>, "persona", Str("analyst")), "job_to_be_done", Str("review")),
     Put(Put(<<>>, "persona", Obj(Put(<<>>, "role", Str("analyst")))),
         "job_to_be_done", Obj(Put(<<>>, "task", Str("review"))))}

\* the output file: untouched, cut short by a failed write, or holding data
Untouched == [file |-> "untouched"]
CutShort == [file |-> "truncated"]
Written(data) == [file |-> "written", data |-> data]

\* _create_output, lines 219-240, as far as it depends on the input data
CreateOutput(data) ==
    [metadata |-> [persona |-> data["persona_text"],
                   job_to_be_done |-> data["job_to_be_done_text"]]]

RunInit ==
    /\ run_file \in InputFiles
    /\ run_json \in RunDocuments
    /\ faults \in SUBSET FaultySteps
    /\ run_step = 1
    /\ steps_done = <<>>
    /\ run_input = None
    /\ output_data = None
    /\ output_file = Untouched
    /\ returned = None
    /\ run_error = "none"
    /\ upc = "try"

\* the step at position run_step of the try block is the next to run
AtStep(name) == upc = "try" /\ run_step <= Len(Steps) /\ Steps[run_step] = name

\* the step completes and the try block moves on
Completes(name) ==
    /\ steps_done' = Append(steps_done, name)
    /\ run_step' = run_step + 1
    /\ UNCHANGED <<run_error, upc>>

\* the step raises and control passes to the except clause of line 94
Fails(name, message) ==
    /\ run_error' = message
    /\ upc' = "except"
    /\ UNCHANGED <<steps_done, run_step>>

\* step 1, lines 54-56
RunLoad ==
    /\ AtStep("load")
    /\ LET outcome == LoadAndValidateInput(run_file, run_json)
       IN  IF outcome.raised = "none"
           THEN run_input' = outcome.value /\ Completes("load")
           ELSE UNCHANGED run_input /\ Fails("load", outcome.raised)
    /\ UNCHANGED <<run_file, run_json, faults, output_data, output_file, returned>>
    /\ UNCHANGED <<cvars, rvars, mvars, pvars, evars, lvars, tvars>>

\* steps 2 to 5 complete or raise; none of them touches the output file
StepOutcome(name) == IF name \in faults THEN Fails(name, name) ELSE Completes(name)

\* step 2, lines 58-60
RunDiscover ==
    /\ AtStep("discover")
    /\ StepOutcome("discover")
    /\ UNCHANGED <<run_file, run_json, faults, run_input, output_data, output_file,
                   returned>>
    /\ UNCHANGED <<cvars, rvars, mvars, pvars, evars, lvars, tvars>>

\* step 3, lines 62-64
RunExtract ==
    /\ AtStep("extract")
    /\ StepOutcome("extract")
    /\ UNCHANGED <<run_file, run_json, faults, run_input, output_data, output_file,
                   returned>>
    /\ UNCHANGED <<cvars, rvars, mvars, pvars, evars, lvars, tvars>>

\* step 4, lines 66-70
RunEmbed ==
    /\ AtStep("embed")
    /\ StepOutcome("embed")
    /\ UNCHANGED <<run_file, run_json, faults, run_input, output_data, output_file,
                   returned>>
    /\ UNCHANGED <<cvars, rvars, mvars, pvars, evars, lvars, tvars>>

\* step 5, lines 72-76
RunMatch ==
    /\ AtStep("match")
    /\ StepOutcome("match")
    /\ UNCHANGED <<run_file, run_json, faults, run_input, output_data, output_file,
                   returned>>
    /\ UNCHANGED <<cvars, rvars, mvars, pvars, evars, lvars, tvars>>

\* step 6, lines 78-82
RunOutput ==
    /\ AtStep("output")
    /\ output_data' = CreateOutput(run_input)
    /\ Completes("output")
    /\ UNCHANGED <<run_file, run_json, faults, run_input, output_file, returned>>
    /\ UNCHANGED <<cvars, rvars, mvars, pvars, evars, lvars, tvars>>

\* step 7, lines 84-85: _save_output and save_json; a failure happens before the
\* file is opened or while it is being written
RunSave ==
    /\ AtStep("save")
    /\ IF "save" \in faults
       THEN output_file' \in {output_file, CutShort} /\ Fails("save", "save")
       ELSE output_file' = Written(output_data) /\ Completes("save")
    /\ UNCHANGED <<run_file, run_json, faults, run_input, output_data, returned>>
    /\ UNCHANGED <<cvars, rvars, mvars, pvars, evars, lvars, tvars>>

\* line 92
RunReturn ==
    /\ upc = "try"
    /\ run_step > Len(Steps)
    /\ returned' = output_data
    /\ upc' = "returned"
    /\ UNCHANGED <<run_file, run_json, faults, run_step, steps_done, run_input,
                   output_data, output_file, run_error>>
    /\ UNCHANGED <<cvars, rvars, mvars, pvars, evars, lvars, tvars>>

\* lines 94-96: the error is printed and raised again
RunExcept ==
    /\ upc = "except"
    /\ upc' = "raised"
    /\ UNCHANGED <<run_file, run_json, faults, run_step, steps_done, run_input,
                   output_data, output_file, returned, run_error>>
    /\ UNCHANGED <<cvars, rvars, mvars, pvars, evars, lvars, tvars>>

RunNext ==
    \/ RunLoad
    \/ RunDiscover
    \/ RunExtract
    \/ RunEmbed
    \/ RunMatch
    \/ RunOutput
    \/ RunSave
    \/ RunReturn
    \/ RunExcept

RunIdle ==
    /\ run_file = "none"
    /\ run_json = <<>>
    /\ faults = {}
    /\ run_step = 0
    /\ steps_done = <<>>
    /\ run_input = None
    /\ output_data = None
    /\ output_file = Untouched
    /\ returned = None
    /\ run_error = "none"
    /\ upc = "idle"

----------------------------------------------------------------------------
(* Specifications: one per operation under study *)

InitChunk == ChunkInit /\ RefineIdle /\ MatchIdle /\ ParseIdle /\ ExtractIdle /\ LoadIdle /\ TitleIdle /\ RunIdle

SpecChunk == InitChunk /\ [][ChunkNext]_vars

\* chunk_text as it runs: the call and each iteration of its loop are taken
\* as long as they are possible
SpecChunkFair == InitChunk /\ [][ChunkNext]_vars /\ WF_vars(ChunkNext)

InitRefine == RefineInit /\ ChunkIdle /\ MatchIdle /\ ParseIdle /\ ExtractIdle /\ LoadIdle /\ TitleIdle /\ RunIdle

SpecRefine == InitRefine /\ [][RefineNext]_vars

\* _create_refined_text on contents longer than max_length
InitBoundary ==
    BoundaryInit /\ ChunkIdle /\ MatchIdle /\ ParseIdle /\ ExtractIdle /\ LoadIdle /\ TitleIdle /\ RunIdle

SpecBoundary == InitBoundary /\ [][RefineNext]_vars

\* match_and_rank_sections on freshly embedded candidates
InitMatch == MatchInit /\ ChunkIdle /\ RefineIdle /\ ParseIdle /\ ExtractIdle /\ LoadIdle /\ TitleIdle /\ RunIdle

SpecMatch == InitMatch /\ [][MatchNext]_vars

\* match_and_rank_sections from line 277 on, for any list of scored candidates
InitMerge == MergeInit /\ ChunkIdle /\ RefineIdle /\ ParseIdle /\ ExtractIdle /\ LoadIdle /\ TitleIdle /\ RunIdle

SpecMerge == InitMerge /\ [][MergeNext]_vars

\* calculate_cosine_similarity inside match_and_rank_sections, one candidate
InitSimilarity == SimilarityInit /\ ChunkIdle /\ RefineIdle /\ ParseIdle /\ ExtractIdle /\ LoadIdle /\ TitleIdle /\ RunIdle

SpecSimilarity == InitSimilarity /\ [][MatchNext]_vars

\* match_and_rank_sections with top_k = 10 on up to MaxViewSections sections
InitViews == ViewsInit /\ ChunkIdle /\ RefineIdle /\ ParseIdle /\ ExtractIdle /\ LoadIdle /\ TitleIdle /\ RunIdle

SpecViews == InitViews /\ [][MatchNext]_vars

\* _extract_all_sections over the documents of one run
InitExtract == ExtractInit /\ ChunkIdle /\ RefineIdle /\ MatchIdle /\ ParseIdle /\ LoadIdle /\ TitleIdle /\ RunIdle

SpecExtract == InitExtract /\ [][ExtractNext]_vars

\* _load_and_validate_input on one input file
InitLoad ==
    LoadInit /\ ChunkIdle /\ RefineIdle /\ MatchIdle /\ ParseIdle /\ ExtractIdle /\ TitleIdle /\ RunIdle

SpecLoad == InitLoad /\ [][LoadNext]_vars

\* format_section_title on titles of up to MaxTitleLen characters
InitTitle ==
    TitleInit /\ ChunkIdle /\ RefineIdle /\ MatchIdle /\ ParseIdle /\ ExtractIdle /\ LoadIdle /\ RunIdle

SpecTitle == InitTitle /\ [][TitleNext]_vars

\* one call of run()
InitRun ==
    RunInit /\ ChunkIdle /\ RefineIdle /\ MatchIdle /\ ParseIdle /\ ExtractIdle /\ LoadIdle
    /\ TitleIdle

SpecRun == InitRun /\ [][RunNext]_vars

\* extract_sections over the pages of one document
InitParse == ParseInit /\ ChunkIdle /\ RefineIdle /\ MatchIdle /\ ExtractIdle /\ LoadIdle /\ TitleIdle /\ RunIdle

SpecParse == InitParse /\ [][ParseNext]_vars

----------------------------------------------------------------------------
(* Properties of chunk_text *)

\* number of leading whitespace characters of s
LeadingSpace(s) ==
    LET solid == {i \in 1 .. Len(s) : ~IsSpace(s[i])}
    IN  IF solid = {} THEN Len(s) ELSE SetMin(solid) - 1

\* 0-based offset in text at which the i-th emitted chunk begins
ChunkOffset(i) ==
    LET window == Slice(text, windows[i].s, windows[i].e)
    IN  IF chunks[i] = window THEN windows[i].s
        ELSE windows[i].s + LeadingSpace(window)

\* C5: every chunk is a contiguous substring of the text lying in its window,
\* windows are emitted in increasing start offset, and once chunk_text has
\* returned (overlap >= 0) every non-whitespace position of the text lies
\* inside at least one chunk.
C5_ChunksCoverText ==
    /\ Len(windows) = Len(chunks)
    /\ \A i \in 1 .. Len(chunks) :
        /\ ChunkOffset(i) + Len(chunks[i]) <= windows[i].e
        /\ Slice(text, ChunkOffset(i), ChunkOffset(i) + Len(chunks[i])) = chunks[i]
    /\ \A i, j \in 1 .. Len(chunks) : i < j => windows[i].s < windows[j].s
    /\ cpc = "done" =>
        \A p \in 1 .. Len(text) :
            ~IsSpace(text[p]) =>
                \E i \in 1 .. Len(chunks) :
                    ChunkOffset(i) < p /\ p <= ChunkOffset(i) + Len(chunks[i])

\* a finished run over a text with a space in which the first window retreated
\* to a word boundary and later chunks overlap it
C5_Witness ==
    /\ cpc = "done"
    /\ Len(chunks) >= 2
    /\ overlap > 0
    /\ windows[1].e < windows[1].s + max_chunk_size
    /\ windows[2].s < windows[1].e

IsExampleRun ==
    /\ text = ExampleText
    /\ max_chunk_size = DefaultMaxChunkSize
    /\ overlap = DefaultOverlap
    /\ cpc = "done"

\* C6 (as amended): 600 characters without a space, max_chunk_size 512 and
\* overlap 50 give exactly two chunks, of lengths 512 and 138 (the second
\* chunk starts 50 characters before the end of the first).
C6_ExampleLengths ==
    IsExampleRun =>
        /\ Len(chunks) = 2
        /\ Len(chunks[1]) = 512
        /\ Len(chunks[2]) = 138

C6_Witness == IsExampleRun /\ Len(chunks) = 2

\* C6 as stated: the two chunks have lengths 512 and 88.
C6_AsStated ==
    IsExampleRun =>
        /\ Len(chunks) = 2
        /\ Len(chunks[1]) = 512
        /\ Len(chunks[2]) = 88

\* C7 as stated: every returned chunk is non-empty after trimming, also for
\* texts no longer than max_chunk_size and texts made only of whitespace.
C7_ChunksNonEmptyTrimmed ==
    \A i \in 1 .. Len(chunks) : Strip(chunks[i]) # <<>>

----------------------------------------------------------------------------
(* Properties of _create_refined_text *)

\* C8 (as amended): for non-empty content and max_length >= 0 the refined
\* text has at most max_length + 3 characters; empty content returns the
\* 21-character placeholder whatever max_length is.
C8_RefinedLengthBound ==
    rpc = "done" =>
        IF content = <<>>
        THEN refined_text = Placeholder /\ Len(refined_text) = 21
        ELSE Len(refined_text) <= max_length + Len(Ellipsis)

\* the hard cut: content without sentence end or space, longer than max_length
C8_Witness ==
    /\ rpc = "done"
    /\ Len(Strip(content)) > max_length
    /\ max_length > 0
    /\ Len(refined_text) = max_length + 3

\* C8 as stated: at most max_length + 3 characters for every content string.
C8_AsStated ==
    rpc = "done" => Len(refined_text) <= max_length + 3

----------------------------------------------------------------------------
(* Properties of match_and_rank_sections *)

\* N: the candidates whose similarity score is >= min_similarity
AboveThreshold ==
    {i \in 1 .. Len(embedded_sections) :
        CalculateCosineSimilarity(query_embedding, embedded_sections[i]["embedding"])
            >= MinSimilarityThreshold}

RankedKeys == {Key(ranked_sections[i]) : i \in 1 .. Len(ranked_sections)}

\* C1 (as amended): rank_sections keeps min(top_k, N) candidates, and the
\* summary has one entry per distinct identity key among them: at most
\* min(top_k, N) entries, and exactly that many when the kept candidates
\* have pairwise distinct keys.
C1_SummaryLength ==
    /\ mpc \in {"merge", "output", "done"} =>
        Len(ranked_sections) = Min(top_k, Cardinality(AboveThreshold))
    /\ mpc = "done" =>
        /\ Len(section_summaries) = Cardinality(RankedKeys)
        /\ Len(section_summaries) <= Min(top_k, Cardinality(AboveThreshold))
        /\ Cardinality(RankedKeys) = Len(ranked_sections) =>
              Len(section_summaries) = Min(top_k, Cardinality(AboveThreshold))

\* more candidates above the threshold than top_k, and chunks of one section
\* among the kept ones
C1_Witness ==
    /\ mpc = "done"
    /\ top_k < Cardinality(AboveThreshold)
    /\ Len(ranked_sections) = top_k
    /\ Len(section_summaries) < top_k
    /\ Len(section_summaries) > 0

\* C1 as stated: the summary has exactly min(top_k, N) entries.
C1_AsStated ==
    mpc = "done" =>
        Len(section_summaries) = Min(top_k, Cardinality(AboveThreshold))

\* C2: importance_rank is 1, 2, ..., len(summary) in list order and the
\* entry of rank i describes the i-th record of the ranked (merged) list.
C2_DenseRanks ==
    mpc = "done" =>
        /\ Len(section_summaries) = Len(merged_sections)
        /\ \A i \in 1 .. Len(section_summaries) :
            /\ section_summaries[i].importance_rank = i
            /\ section_summaries[i].document = merged_sections[i]["document"]
            /\ section_summaries[i].section_title = merged_sections[i]["title"]
            /\ section_summaries[i].page_number = merged_sections[i]["page_number"]
            /\ section_summaries[i].similarity_score
                  = merged_sections[i]["similarity_score"]

C2_Witness ==
    /\ mpc = "done"
    /\ Len(section_summaries) >= 3
    /\ section_summaries[3].importance_rank = 3

----------------------------------------------------------------------------
(* Properties of merge_chunked_sections *)

\* the positions in ranked_sections of the members of the group of key
MembersOf(key) == {i \in 1 .. Len(ranked_sections) : Key(ranked_sections[i]) = key}

ChunkId(i) == Get(ranked_sections[i], "chunk_id", 0)

\* place of member i of its group in ascending chunk_id order (input order
\* among equal ids)
PlaceInGroup(key, i) ==
    1 + Cardinality({j \in MembersOf(key) :
                        ChunkId(j) < ChunkId(i) \/ (ChunkId(j) = ChunkId(i) /\ j < i)})

TextsInChunkOrder(key) ==
    [n \in 1 .. Cardinality(MembersOf(key)) |->
        ChunkTextOf(ranked_sections[CHOOSE i \in MembersOf(key) : PlaceInGroup(key, i) = n])]

MaxScoreOf(key) ==
    CHOOSE v \in {Score(ranked_sections[i]) : i \in MembersOf(key)} :
        \A i \in MembersOf(key) : Score(ranked_sections[i]) <= v

\* C3: a group of several candidates with one identity key becomes one record
\* whose content is the members' texts in ascending chunk_id order joined by
\* single spaces, whose score is the maximum member score, and which carries
\* none of the chunk-specific fields.
C3_MergedRecord ==
    mpc \in {"output", "done"} =>
        \A key \in RankedKeys :
            Cardinality(MembersOf(key)) >= 2 =>
                /\ Cardinality({m \in 1 .. Len(merged_sections) :
                                    Key(merged_sections[m]) = key}) = 1
                /\ \A m \in 1 .. Len(merged_sections) :
                    Key(merged_sections[m]) = key =>
                        /\ merged_sections[m]["content"] = Join(TextsInChunkOrder(key))
                        /\ merged_sections[m]["similarity_score"] = MaxScoreOf(key)
                        /\ DOMAIN merged_sections[m] \cap ChunkFields = {}
                        /\ merged_sections[m]["merged_chunks"] = Cardinality(MembersOf(key))

\* the worked example: chunk_ids 2, 0, 1 whose best score is the last one
C3_Witness ==
    /\ mpc = "done"
    /\ Len(ranked_sections) = 3
    /\ <<ChunkId(1), ChunkId(2), ChunkId(3)>> = <<2, 0, 1>>
    /\ <<Score(ranked_sections[1]), Score(ranked_sections[2]),
        Score(ranked_sections[3])>> = <<9000, 8000, 10000>>
    /\ Len(merged_sections) = 1
    /\ merged_sections[1]["content"] = <<"c", "0", " ", "c", "1", " ", "c", "2">>
    /\ merged_sections[1]["similarity_score"] = 10000

\* C4: merging the output of a merge returns the same records in the same
\* order: every identity key occurs once in it, so every group passes through.
C4_MergeIdempotent ==
    mpc \in {"output", "done"} =>
        /\ \A i, j \in 1 .. Len(merged_sections) :
            Key(merged_sections[i]) = Key(merged_sections[j]) => i = j
        /\ MergeChunkedSections(merged_sections) = merged_sections

\* a merge that joined chunks and left two records with equal scores
C4_Witness ==
    /\ mpc = "done"
    /\ Len(merged_sections) = 2
    /\ Len(ranked_sections) = 3
    /\ Score(merged_sections[1]) = Score(merged_sections[2])

----------------------------------------------------------------------------
(* Properties of the heading classifier and of extract_sections *)

\* the length a line must have to be scored as a heading
InHeadingRange(line) == MinHeadingLength <= Len(line) /\ Len(line) <= MaxHeadingLength

\* the trimmed lines of the i-th page with content
TrimmedLines(i) ==
    LET lines == SplitOn(pages_content[i].text, "\n")
    IN  {Strip(lines[k]) : k \in 1 .. Len(lines)}

\* every section built so far, the open one included
SectionsSoFar ==
    Range(sections) \cup (IF current_section # None THEN {current_section} ELSE {})

\* the section was opened by a line of its page of a length in [3, 200]
StartedByLineInRange(section) ==
    \E i \in 1 .. Len(pages_content) :
        /\ pages_content[i].page_number = section.page_number
        /\ \E line \in TrimmedLines(i) :
            InHeadingRange(line) /\ section.title = FormatSectionTitle(line)

\* C9: a line whose trimmed length is below 3 or above 200 is never reported
\* by identify_headings, and no section is ever started by such a line: a
\* section is either the default section of a page or was started by a line
\* of its page whose length lies in [3, 200].
C9_OutOfRangeNeverHeading ==
    /\ \A i \in 1 .. Len(headings) : InHeadingRange(headings[i].line)
    /\ \A section \in SectionsSoFar :
        \/ section.title = DefaultTitle(section.page_number)
        \/ StartedByLineInRange(section)

\* a page holding a 2-character capital line and a page holding a
\* 201-character capital line have both been segmented without any heading
C9_Witness ==
    /\ ppc = "pages"
    /\ page_idx = 3
    /\ Len(pages_content) = 2
    /\ Len(pages_content[1].text) = MinHeadingLength - 1
    /\ Len(pages_content[2].text) = MaxHeadingLength + 1
    /\ IsUpperStr(pages_content[1].text)
    /\ headings = <<>>
    /\ current_section # None
    /\ current_section.title = DefaultTitle(1)

\* C10: the line "INTRODUCTION" is reported with confidence 75: pattern +30,
\* length below 80 +10, all capitals shorter than 50 +25, section starter
\* +20, and the prose penalty -10 because the lowercased line contains "in";
\* the colon rule and the capitalised-words rule contribute nothing.
C10_IntroductionScore ==
    \A i \in 1 .. Len(headings) :
        headings[i].line = Introduction =>
            /\ headings[i].confidence = 75
            /\ PatternScore(Introduction) = 30
            /\ LengthScore(Introduction) = 10
            /\ AllCapsScore(Introduction) = 25
            /\ StarterScore(Introduction) = 20
            /\ ProsePenalty(Introduction) = -10
            /\ ColonScore(Introduction) = 0
            /\ WordCapsScore(Introduction) = 0

\* a page whose only line is "INTRODUCTION" has been segmented and the line
\* has opened a section
C10_Witness ==
    /\ ppc = "pages"
    /\ Len(headings) = 1
    /\ headings[1].line = Introduction
    /\ headings[1].confidence >= min_confidence
    /\ current_section # None
    /\ current_section.title = FormatSectionTitle(Introduction)

\* C10 as the specification states it: "INTRODUCTION" is reported with
\* confidence 85 and without any prose penalty
C10_AsStated ==
    \A i \in 1 .. Len(headings) :
        headings[i].line = Introduction =>
            /\ headings[i].confidence = 85
            /\ ProsePenalty(Introduction) = 0

----------------------------------------------------------------------------
(* Properties of calculate_cosine_similarity *)

\* the score of the i-th candidate against the query, in units of 0.0001
ScoreOf(i) == CalculateCosineSimilarity(query_embedding, embedded_sections[i]["embedding"])

\* the query or the i-th candidate has zero magnitude
ZeroMagnitude(i) == Norm(query_embedding) = 0 \/ Norm(embedded_sections[i]["embedding"]) = 0

\* C11: when the query vector or the candidate vector has zero magnitude the
\* score is exactly 0 (not 0.5), and rank_sections, whose threshold is
\* positive, drops the candidate: nothing is ranked, merged or reported.
C11_ZeroMagnitudeScoresZero ==
    /\ MinSimilarityThreshold > 0
    /\ \A i \in 1 .. Len(embedded_sections) :
        ZeroMagnitude(i) =>
            /\ ScoreOf(i) = 0
            /\ mpc # "rank" =>
                \A j \in 1 .. Len(ranked_sections) :
                    Key(ranked_sections[j]) # Key(embedded_sections[i])
    /\ (mpc = "done" /\ \A i \in 1 .. Len(embedded_sections) : ZeroMagnitude(i)) =>
        section_summaries = <<>> /\ subsection_analysis = <<>>

\* a run over a non-zero query and a zero candidate has finished empty
C11_Witness ==
    /\ mpc = "done"
    /\ query_embedding = <<3, 4>>
    /\ Len(embedded_sections) = 1
    /\ embedded_sections[1]["embedding"] = <<0, 0>>
    /\ ranked_sections = <<>>
    /\ section_summaries = <<>>

\* C12: for every pair of vectors the score (cos + 1) / 2 lies in [0, 1], and
\* orthogonal non-zero vectors score 0.5.
C12_ScoreInUnitRange ==
    \A i \in 1 .. Len(embedded_sections) :
        /\ 0 <= ScoreOf(i)
        /\ ScoreOf(i) <= 10000
        /\ (~ZeroMagnitude(i) /\ Dot(query_embedding, embedded_sections[i]["embedding"]) = 0)
              => ScoreOf(i) = 5000

----------------------------------------------------------------------------
(* Properties of extract_sections *)

\* the sections handed to _post_process_sections at line 218
BeforePostProcess ==
    IF current_section # None THEN Append(sections, current_section) ELSE sections

\* the content has at least 50 characters once trimmed
LongEnough(section) == Len(Strip(section.content)) >= MinContentLength

\* C13: the sections extract_sections returns are, in order, exactly the
\* sections built whose content has at least 50 characters, each with its
\* content normalized and still at least 50 characters long; every section
\* with shorter content is discarded.
C13_ShortSectionsDiscarded ==
    [][(ppc = "pages" /\ ppc' = "done") =>
          LET kept == SelectSeq(BeforePostProcess, LongEnough)
          IN  /\ Len(sections') = Len(kept)
              /\ \A i \in 1 .. Len(kept) :
                  /\ sections'[i] = [kept[i] EXCEPT !.content = CleanText(@)]
                  /\ Len(sections'[i].content) >= MinContentLength
                  /\ CleanText(sections'[i].content) = sections'[i].content]_vars

\* a document whose only page holds exactly 50 characters has been returned
\* as one section
C13_Witness ==
    /\ ppc = "done"
    /\ raw_pages = <<Sentence(MinContentLength)>>
    /\ Len(sections) = 1
    /\ Len(sections[1].content) = MinContentLength

----------------------------------------------------------------------------
(* Properties of _extract_all_sections *)

\* parse_document is called on the document and returns
Extracted(doc) == doc.exists /\ IsPdfPath(doc) /\ ~doc.outcome.error

\* the sections the first n documents contribute, in order
RECURSIVE Contributed(_)
Contributed(n) ==
    IF n = 0 THEN <<>>
    ELSE Contributed(n - 1) \o
         (IF Extracted(pdf_files[n])
          THEN [i \in 1 .. Len(pdf_files[n].outcome.sections) |->
                   [title |-> pdf_files[n].outcome.sections[i].title,
                    page_number |-> pdf_files[n].outcome.sections[i].page_number,
                    document |-> Basename(pdf_files[n])]]
          ELSE <<>>)

\* C14: a document whose extraction fails contributes no section and does not
\* stop the run: after the k-th document, all_sections holds, in document
\* order, every section of every document that was extracted, tagged with that
\* document's basename; documents_processed counts exactly those documents;
\* and parse_document is called at most once per document.
C14_FailedDocumentSkipped ==
    /\ epc \in {"idle", "loop", "done"}
    /\ epc # "idle" =>
        /\ all_sections = Contributed(doc_idx - 1)
        /\ documents_processed =
              Cardinality({i \in 1 .. (doc_idx - 1) : Extracted(pdf_files[i])})
        /\ \A i \in 1 .. Len(pdf_files) : attempts[i] <= 1
        /\ \A i \in 1 .. (doc_idx - 1) :
              attempts[i] = (IF pdf_files[i].exists /\ IsPdfPath(pdf_files[i]) THEN 1 ELSE 0)
        /\ epc = "done" => doc_idx = Len(pdf_files) + 1 /\ sections_extracted = Len(all_sections)

\* a failing document followed by one with two sections: the run has finished
\* with those two sections and one processed document
C14_Witness ==
    /\ epc = "done"
    /\ Len(pdf_files) = 2
    /\ pdf_files[1].exists /\ IsPdfPath(pdf_files[1]) /\ pdf_files[1].outcome.error
    /\ Extracted(pdf_files[2])
    /\ Len(all_sections) = 2
    /\ all_sections[1]["document"] = Basename(pdf_files[2])
    /\ documents_processed = 1
    /\ attempts = <<1, 1>>

----------------------------------------------------------------------------
(* Properties of the two output views *)

\* C15: the detailed view holds the first 5 merged records, so at most 5
\* entries; the summary view holds one entry for every merged record, so at
\* most top_k entries, and more than 5 when more than 5 records are ranked.
C15_ViewSizes ==
    mpc = "done" =>
        /\ Len(subsection_analysis) = Min(MaxSubsections, Len(merged_sections))
        /\ Len(subsection_analysis) <= MaxSubsections
        /\ Len(section_summaries) = Len(merged_sections)
        /\ Len(section_summaries) <= top_k
        /\ \A i \in 1 .. Len(subsection_analysis) :
            /\ subsection_analysis[i].section_title = section_summaries[i].section_title
            /\ subsection_analysis[i].page_number = section_summaries[i].page_number

\* top_k is 10 and seven records rank above the threshold: seven summaries
C15_Witness ==
    /\ mpc = "done"
    /\ top_k = DefaultTopK
    /\ Len(merged_sections) = MaxSubsections + 2
    /\ Len(section_summaries) = MaxSubsections + 2
    /\ Len(subsection_analysis) = MaxSubsections

\* C15 as the specification states it: both views hold at most 5 entries
C15_AsStated ==
    mpc = "done" =>
        /\ Len(section_summaries) <= MaxSubsections
        /\ Len(subsection_analysis) <= MaxSubsections

----------------------------------------------------------------------------
(* Properties of format_section_title *)

\* C16: for every non-empty title, whatever its casing, format_section_title
\* returns the cleaned title with every word capitalized: the first letter of
\* each word upper case and the letters after it lower case.
C16_EveryWordCapitalized ==
    (tpc = "done" /\ raw_title # <<>>) =>
        /\ formatted_title = TitleCase(CleanText(raw_title))
        /\ \A i \in 1 .. Len(Words(formatted_title)) :
            ~IsLowerChar(Words(formatted_title)[i][1])

----------------------------------------------------------------------------
(* Properties of _load_and_validate_input *)

\* the field is an object that lacks the key
ObjectWithout(field, key) ==
    input_data[field].type = "dict" /\ key \notin DOMAIN input_data[field].value

\* C17: on a readable input file, a missing persona or job_to_be_done field
\* is an error, and so is a persona object without role or a job_to_be_done
\* object without task; otherwise the call returns the input with
\* persona_text = persona.role for an object and the persona string for a
\* string, and job_to_be_done_text = job_to_be_done.task or the string.
C17_BothInputFormats ==
    (lpc = "done" /\ input_file = "ok") =>
        IF "persona" \notin DOMAIN input_data \/ "job_to_be_done" \notin DOMAIN input_data
        THEN loaded.raised # "none"
        ELSE IF ObjectWithout("persona", "role") \/ ObjectWithout("job_to_be_done", "task")
        THEN loaded.raised # "none"
        ELSE /\ loaded.raised = "none"
             /\ \A f \in DOMAIN input_data : loaded.value[f] = input_data[f]
             /\ input_data["persona"].type = "dict" =>
                   loaded.value["persona_text"] = input_data["persona"].value["role"]
             /\ input_data["persona"].type = "str" =>
                   loaded.value["persona_text"] = input_data["persona"]
             /\ input_data["job_to_be_done"].type = "dict" =>
                   loaded.value["job_to_be_done_text"] = input_data["job_to_be_done"].value["task"]
             /\ input_data["job_to_be_done"].type = "str" =>
                   loaded.value["job_to_be_done_text"] = input_data["job_to_be_done"]

\* a persona object with a role and a plain job string have been accepted
C17_Witness ==
    /\ lpc = "done"
    /\ input_file = "ok"
    /\ DOMAIN input_data = {"persona", "job_to_be_done"}
    /\ input_data["persona"] = Obj(Put(<<>>, "role", Str("analyst")))
    /\ input_data["job_to_be_done"] = Str("review")
    /\ loaded.raised = "none"
    /\ loaded.value["persona_text"] = Str("analyst")
    /\ loaded.value["job_to_be_done_text"] = Str("review")

----------------------------------------------------------------------------
(* Properties of the order of ranking, cutting and merging *)

\* every candidate scoring >= min_similarity, with its score, in input order
AllScored == ScoredSections(query_embedding, embedded_sections)

\* G: the identity keys with a member scoring >= min_similarity
KeysAboveThreshold == {Key(AllScored[i]) : i \in 1 .. Len(AllScored)}

\* C18: the ranked output is the first top_k records of the merged and
\* re-sorted set of all candidates scoring >= min_similarity, so it has
\* min(top_k, G) entries and a merged record holds the text of every
\* above-threshold member of its group.
C18_CutAfterMerge ==
    mpc \in {"output", "done"} =>
        /\ merged_sections = TopK(MergeChunkedSections(SortByScoreDesc(AllScored)), top_k)
        /\ Len(merged_sections) = Min(top_k, Cardinality(KeysAboveThreshold))

----------------------------------------------------------------------------
(* Properties of the order of the ranked records *)

\* position in the input list of the candidate a ranked record was copied from
InputIndex(ranked) ==
    CHOOSE i \in 1 .. Len(embedded_sections) :
        embedded_sections[i] = Pop(ranked, {"similarity_score"})

\* the member of the record's group that merge_chunked_sections meets first
FirstSeenMember(merged) ==
    ranked_sections[SetMin({j \in 1 .. Len(ranked_sections) :
                               Key(ranked_sections[j]) = Key(merged)})]

\* position in the input list of the first candidate of the record's group
FirstInInput(merged) ==
    SetMin({i \in 1 .. Len(embedded_sections) : Key(embedded_sections[i]) = Key(merged)})

\* C19: after the first sort the ranked candidates are in non-increasing score
\* order and candidates of equal score are in input order; after the merge and
\* its re-sort the merged records are in non-increasing score order and
\* records of equal score are in the input order of their first-seen members
\* (and of the first candidates of their groups).
C19_StableScoreOrder ==
    /\ mpc \in {"merge", "output", "done"} =>
        \A i, j \in 1 .. Len(ranked_sections) :
            i < j =>
                /\ Score(ranked_sections[i]) >= Score(ranked_sections[j])
                /\ Score(ranked_sections[i]) = Score(ranked_sections[j]) =>
                      InputIndex(ranked_sections[i]) < InputIndex(ranked_sections[j])
    /\ mpc \in {"output", "done"} =>
        \A i, j \in 1 .. Len(merged_sections) :
            i < j =>
                /\ Score(merged_sections[i]) >= Score(merged_sections[j])
                /\ Score(merged_sections[i]) = Score(merged_sections[j]) =>
                      /\ InputIndex(FirstSeenMember(merged_sections[i]))
                            < InputIndex(FirstSeenMember(merged_sections[j]))
                      /\ FirstInInput(merged_sections[i]) < FirstInInput(merged_sections[j])

\* three candidates ranked with a tie, merged into two records of equal
\* score, the first of them joined from two chunks
C19_Witness ==
    /\ mpc = "done"
    /\ Len(ranked_sections) = 3
    /\ Score(ranked_sections[1]) = Score(ranked_sections[2])
    /\ Len(merged_sections) = 2
    /\ Score(merged_sections[1]) = Score(merged_sections[2])
    /\ "merged_chunks" \in DOMAIN merged_sections[1]

----------------------------------------------------------------------------
(* Properties of the segmentation of one page *)

\* no line of the page being segmented reaches min_confidence
NoLineQualifies ==
    \A line \in TrimmedLines(page_idx) :
        ~InHeadingRange(line) \/ CalculateHeadingConfidence(line) < min_confidence

\* C20: a page on which no line reaches min_confidence is taken whole as
\* content: its text is appended to the open section, or, when no section is
\* open, a default section "Content from Page <n>" is opened with the page
\* text as content; this holds also when a line of the page has a positive
\* confidence below min_confidence.
C20_WholePageIsContent ==
    [][(ppc = "pages" /\ page_idx <= Len(pages_content) /\ page_idx' = page_idx + 1
            /\ NoLineQualifies) =>
          /\ sections' = sections
          /\ current_section' =
                IF current_section # None
                THEN Extend(current_section, pages_content[page_idx].text)
                ELSE PDFSection(DefaultTitle(pages_content[page_idx].page_number),
                                pages_content[page_idx].text,
                                pages_content[page_idx].page_number, 1)]_vars

----------------------------------------------------------------------------
(* Properties of the emission of sections *)

\* the open section has accumulated content
OpenWithContent == current_section # None /\ Strip(current_section.content) # <<>>

\* this step replaces the open section by a section opened on a later page
ReplacesOpenSection ==
    /\ ppc = "pages"
    /\ ppc' = "pages"
    /\ current_section # None
    /\ current_section' # None
    /\ current_section'.page_number # current_section.page_number

\* C21: a section that has accumulated content is emitted to the list handed
\* to post-processing when the next qualifying heading replaces it, also when
\* that heading is the first line of the next page, and at the end of the
\* document.
C21_SectionWithContentEmitted ==
    [][/\ (OpenWithContent /\ ReplacesOpenSection) =>
              sections' = Append(sections, current_section)
       /\ (OpenWithContent /\ ppc = "pages" /\ ppc' = "done") =>
              \E emitted \in Range(PostProcessSectionsKeepAll(Append(sections, current_section))) :
                  emitted.title = current_section.title]_vars

----------------------------------------------------------------------------
(* Properties of _estimate_heading_level *)

TwoOneFoo == <<"2", ".", "1", " ", "F", "o", "o">>

\* C22: every section has level >= 1, and a section opened by the numbered
\* heading "2.1 Foo" has its outline depth as level, which is 2.
C22_NumberedHeadingDepth ==
    \A section \in SectionsSoFar :
        /\ section.level >= 1
        /\ section.title = TwoOneFoo => section.level = 2

----------------------------------------------------------------------------
(* Properties of the cut made by _create_refined_text *)

\* the content once trimmed, and its first max_length characters
Trimmed == Strip(content)
Truncated == SubSeq(Trimmed, 1, Min(max_length, Len(Trimmed)))

\* 0-based index of the last '.', '!' or '?' of the prefix, -1 when none
LastMark ==
    LET marks == {i \in 1 .. Len(Truncated) : Truncated[i] \in {".", "!", "?"}}
    IN  IF marks = {} THEN -1 ELSE SetMax(marks) - 1

\* 0-based index of the last space of the prefix, -1 when none
LastSpace ==
    LET spaces == {i \in 1 .. Len(Truncated) : Truncated[i] = " "}
    IN  IF spaces = {} THEN -1 ELSE SetMax(spaces) - 1

\* the prefix cut at its last space, or whole, with the ellipsis
WordCut ==
    IF LastSpace >= 0 THEN SubSeq(Truncated, 1, LastSpace) \o Ellipsis
    ELSE Truncated \o Ellipsis

C24_NeverEmpty ==
    rpc = "done" =>
        /\ refined_text # <<>>
        /\ Trimmed = <<>> => refined_text = Placeholder

----------------------------------------------------------------------------
(* Termination of chunk_text *)

\* C25: chunk_text terminates for every text, max_chunk_size and overlap,
\* also when overlap >= max_chunk_size and when the text has no space: every
\* iteration of the loop moves start strictly forward, the loop is left as
\* soon as start >= len(text), and every call returns.
C25_ChunkTextTerminates ==
    /\ [][cpc = "loop" => (start' > start /\ (start' >= Len(text) <=> cpc' = "done"))]_vars
    /\ <>(cpc = "done")

\* a call on a text without space with overlap >= max_chunk_size has returned
\* after several iterations
C25_Witness ==
    /\ cpc = "done"
    /\ overlap >= max_chunk_size
    /\ \A i \in 1 .. Len(text) : ~IsSpace(text[i])
    /\ Len(text) > max_chunk_size
    /\ Len(chunks) >= 3
    /\ start >= Len(text)

----------------------------------------------------------------------------
(* run(): the output is written last *)

\* the steps that come before the saving of the output
BeforeSave == {"load", "discover", "extract", "embed", "match", "output"}

\* the steps of the set that have completed
Done(names) == {n \in names : \E i \in 1 .. Len(steps_done) : steps_done[i] = n}

\* the call has ended by raising the error of one of the steps before the save
RaisedBeforeSave == upc = "raised" /\ Done(BeforeSave) # BeforeSave

\* C26: a run writes the output file only as its last step, after loading,
\* discovery, extraction, embedding, ranking and output construction have all
\* completed; when one of those steps raises, run() raises that error again,
\* the output file is not written and nothing is returned; a run that returns
\* has written and returns the complete output.
C26_OutputWrittenLast ==
    /\ output_file # Untouched => Done(BeforeSave) = BeforeSave
    /\ returned # None => Done(BeforeSave) = BeforeSave
    /\ upc = "except" => run_error # "none"
    /\ RaisedBeforeSave =>
          /\ run_error # "none"
          /\ output_file = Untouched
          /\ returned = None
    /\ upc = "returned" =>
          /\ output_file = Written(CreateOutput(run_input))
          /\ returned = CreateOutput(run_input)
          /\ run_error = "none"

\* a run has failed in the ranking step after four completed steps
C26_Witness ==
    /\ upc = "raised"
    /\ Len(steps_done) = 4
    /\ run_error = "match"
    /\ output_file = Untouched

----------------------------------------------------------------------------
(* Lines buffered while no section is open *)

Body == <<"b", "o", "d", "y">>

\* identify_headings reports a line of the page, none reaches min_confidence,
\* and no section is open: every line of the page is buffered
BufferedWithoutSection ==
    /\ ppc = "pages"
    /\ page_idx <= Len(pages_content)
    /\ current_section = None
    /\ IdentifyHeadings(pages_content[page_idx].text) # <<>>
    /\ NoLineQualifies

\* the pages whose lines were all buffered with no section open
DroppedPages ==
    {i \in 1 .. Len(pages_content) :
        /\ i < page_idx
        /\ IdentifyHeadings(pages_content[i].text) # <<>>
        /\ \A line \in TrimmedLines(i) :
              ~InHeadingRange(line) \/ CalculateHeadingConfidence(line) < min_confidence
        /\ \A k \in 1 .. (i - 1) :
              /\ IdentifyHeadings(pages_content[k].text) # <<>>
              /\ \A line \in TrimmedLines(k) :
                    ~InHeadingRange(line)
                    \/ CalculateHeadingConfidence(line) < min_confidence}

\* a line is buffered with no section open and the first qualifying heading
\* follows on the same page
HeadingAfterBuffer ==
    LineLoop([current |-> None, buffer |-> <<>>, out |-> <<>>],
             <<Body, Introduction, Body>>, {Introduction}, 1)

\* C27: lines buffered on a page while no section is open are discarded: at
\* the end of the page nothing is emitted and no section is opened, at the
\* first qualifying heading the buffer is dropped, and no emitted section
\* lies on such a page.
C27_BufferWithoutSectionDropped ==
    /\ [][(BufferedWithoutSection /\ page_idx' = page_idx + 1) =>
             (sections' = sections /\ current_section' = None)]_vars
    /\ [](/\ HeadingAfterBuffer.out = <<>>
          /\ HeadingAfterBuffer.current.content = <<>>
          /\ HeadingAfterBuffer.buffer = <<Body>>
          /\ \A i \in DroppedPages : \A section \in SectionsSoFar :
                section.page_number # pages_content[i].page_number)

\* the first page was buffered whole and dropped, the second page gave the
\* only section of the document
C27_Witness ==
    /\ ppc = "done"
    /\ Len(pages_content) = 2
    /\ 1 \in DroppedPages
    /\ Len(sections) = 1
    /\ sections[1].page_number = 2

----------------------------------------------------------------------------
(* Page texts are single lines *)

KeyFacts == <<"K", "E", "Y", " ", "F", "A", "C", "T", "S">>

\* the text holds no line break and no two adjacent whitespace characters
SingleSpaced(t) ==
    /\ \A i \in 1 .. Len(t) : t[i] \notin {"\n", "\t"}
    /\ \A i \in 1 .. (Len(t) - 1) : ~(IsSpace(t[i]) /\ IsSpace(t[i + 1]))

\* the section was opened by a heading that is the whole text of its page
OpenedByWholePage(section) ==
    \E i \in 1 .. Len(pages_content) :
        /\ pages_content[i].page_number = section.page_number
        /\ InHeadingRange(pages_content[i].text)
        /\ section.title = FormatSectionTitle(pages_content[i].text)

\* C28: every page text produced by extract_text_from_pdf holds no line
\* break and no run of whitespace, so the split of a page into lines yields
\* exactly one line, the page text itself; a heading reported on a page is
\* the whole page text and has 3 to 200 characters, and a section that is not
\* the default section of its page was opened by such a page.
C28_PageIsOneLine ==
    /\ \A i \in 1 .. Len(pages_content) :
          /\ SingleSpaced(pages_content[i].text)
          /\ SplitOn(pages_content[i].text, "\n") = <<pages_content[i].text>>
    /\ Len(headings) <= 1
    /\ \A k \in 1 .. Len(headings) :
          /\ headings[k].line = pages_content[page_idx - 1].text
          /\ InHeadingRange(headings[k].line)
    /\ \A section \in SectionsSoFar :
          \/ section.title = FormatSectionTitle(DefaultTitle(section.page_number))
          \/ OpenedByWholePage(section)

\* a page whose raw text held line breaks and a run of whitespace has become
\* the single line "KEY FACTS" and has opened a section
C28_Witness ==
    /\ ppc = "pages"
    /\ page_idx = 2
    /\ raw_pages[1] = KeyFactsRaw
    /\ pages_content[1].text = KeyFacts
    /\ current_section # None
    /\ current_section.title = FormatSectionTitle(KeyFacts)
    /\ Len(headings) = 1

----------------------------------------------------------------------------
(* Identity keys in the output of the merge and in the views *)

\* the identity key of a record of a view
ViewKey(entry) == <<entry.document, entry.section_title, entry.page_number>>

\* C29: no two records of the output of merge_chunked_sections share the
\* identity key (document, title, page_number), whatever the list of
\* candidates, and so no two records of section_summaries and no two records
\* of subsection_analysis share it; the keys of the output are those of the
\* input.
C29_IdentityKeysUnique ==
    /\ mpc \in {"output", "done"} =>
          /\ Cardinality({Key(merged_sections[i]) : i \in 1 .. Len(merged_sections)})
                = Len(merged_sections)
          /\ {Key(merged_sections[i]) : i \in 1 .. Len(merged_sections)}
                = {Key(ranked_sections[i]) : i \in 1 .. Len(ranked_sections)}
    /\ mpc = "done" =>
          /\ Cardinality({ViewKey(section_summaries[i]) :
                             i \in 1 .. Len(section_summaries)})
                = Len(section_summaries)
          /\ Cardinality({ViewKey(subsection_analysis[i]) :
                             i \in 1 .. Len(subsection_analysis)})
                = Len(subsection_analysis)

\* three candidates, two of one section and one of the same document and
\* title on another page, have become two records in the merge and the views
C29_Witness ==
    /\ mpc = "done"
    /\ Len(ranked_sections) = 3
    /\ Key(ranked_sections[1]) = Key(ranked_sections[3])
    /\ Key(ranked_sections[2]) # Key(ranked_sections[1])
    /\ Key(ranked_sections[2])[1] = Key(ranked_sections[1])[1]
    /\ Key(ranked_sections[2])[2] = Key(ranked_sections[1])[2]
    /\ Len(merged_sections) = 2
    /\ Len(section_summaries) = 2
    /\ Len(subsection_analysis) = 2

----------------------------------------------------------------------------
(* Progress of the chunk windows *)

\* C30: every chunk after the first covers a character position beyond the
\* end of the window of the chunk before it, and once a window has reached
\* the end of the text no further chunk is emitted.
C30_EveryChunkAdvances ==
    /\ \A i \in 2 .. Len(windows) : windows[i].e > windows[i - 1].e
    /\ \A i \in 1 .. (Len(windows) - 1) : windows[i].e < Len(text)

====
